---- MODULE Spec2Model ----
(***************************************************************************)
(* A model of BashAgent: the execution server's file editor and            *)
(* interactive shell (src/src/server.rs), the agent loop (src/src/main.rs),*)
(* the RPC client's error triage (src/src/client.rs) and the two provider  *)
(* adapters (src/src/anthropic.rs, src/src/openai.rs).                     *)
(*                                                                         *)
(* Each subsystem has its own specification over its own variables; the    *)
(* variables of the other subsystems stay at their initial values.        *)
(*   SpecEditor     the editor RPCs, each handler one atomic action        *)
(*   SpecEditorConc two editor handlers interleaved at their awaits        *)
(*   SpecView       View applied to files of many lines                    *)
(*   SpecSerialize  build_request_body applied to arbitrary conversations  *)
(*   SpecAgent      the prompt loop, cancellation and tool dispatch        *)
(*   SpecBash       RunBash handlers, the probe, the echo task, the shell  *)
(*   SpecBashFair   SpecBash with every task, thread and the shell fair    *)
(*   SpecDecode     the Anthropic SSE decoder                              *)
(*   SpecDecodeOpenai  the OpenAI SSE decoder                              *)
(*   SpecClient     call_view applied to arbitrary view_range arguments    *)
(*                                                                         *)
(* Text (file contents, JSON fragments) is a sequence of one-character     *)
(* strings, so that searching, splitting and splicing are computed.        *)
(***************************************************************************)
EXTENDS Integers, Sequences, FiniteSets, TLC

VARIABLES
    \* ---- editor (server.rs) ----
    disk,           \* path -> [exists, text]: the file system as the editor sees it
    file_history,   \* path -> [present, latest, history]: static file_history
    last,           \* the last editor RPC: its request, its outcome, the file before it
    nOps,           \* number of editor RPCs handled so far
    nShellOps,      \* number of times the shell has changed a file so far
    edit_chain,     \* history variable: the contents t0 .. tk that Create and the
                    \* edits after it gave AbsPath, <<>> when no Create is followed
    in_flight,      \* the editor handlers running concurrently: the state they
                    \* started from, and for each its request and how far it is
    \* ---- request serialization (anthropic.rs, openai.rs) ----
    ser_exchanges,  \* a conversation; its last exchange is the current one
    ser_body,       \* the request body last built from ser_exchanges
    \* ---- agent loop (main.rs, client.rs) ----
    pc,             \* where main is: "prompt", "stream", "tool", "exited", "failed"
    exchanges,      \* main's `exchanges`: the conversation
    exchange,       \* run_exchange's `exchange`: the one in progress
    response,       \* run_exchange's `response`: the turn whose tools are running
    toolIdx,        \* index in response.tool_uses of the tool whose RPC is awaited
    notified,       \* the select!'s Notified future has been woken by notify_waiters
    sigint,         \* [pending, woke]: where main was when the SIGINT that
                    \*   trigger_cancel has not yet seen was raised, and when the
                    \*   one that woke the Notified future was: "none", "prompt",
                    \*   "exchange"
    request,        \* the body of the provider request sent last
    requestPrompt,  \* the prompt of the exchange that sent it
    ids,            \* [prompts, turns, tools, sigints]: how many of each so far
    toolLog,        \* ids of the tool uses of this turn whose RPC was issued, in order
    rpcLog,         \* tool-use id -> the RPC result call_tool saw for it
    dropped,        \* the exchanges dropped by cancellation: [prompt, tools]
    event,          \* the last step of main: what it was and what it consumed
    \* ---- interactive shell (server.rs) ----
    hpc,            \* RunBash handler -> where it is: "idle", "lock", "send",
                    \*   "select", "sleep", "poll"
    mutex,          \* ToolRunner.output_recv's Mutex: the handler holding it, or 0
    waiters,        \* the handlers queued in lock().await, first come first
    todo,           \* handler -> lines of its input still to send after this one
    callOf,         \* handler -> the number of the call it serves
    nCalls,         \* RunBash requests received so far
    handle,         \* the spawn_blocking probe: "none", "queued", "waiting", "ok", "err"
    input_chan,     \* input_sender -> input_recv: lines, each tagged with its call
    pty_in,         \* lines written to the master that the shell has not read
    shell,          \* [state, cmd]: bash blocked in read, or running cmd
    pty_out,        \* chunks the shell wrote that echo_pty has not read
    output_chan,    \* output_sender -> output_recv: chunks, each tagged with its call
    bash_output,    \* handler -> run_bash_tool's `output`
    bash_last,      \* the last RunBash return
    echo_alive,     \* echo_pty is running
    server_up,      \* the server's main has not exited
    t_ioc_read_invoc, \* what the kernel's 'T' 0x69 ioctl does
    \* ---- SSE decoders (anthropic.rs, openai.rs) ----
    dphase,         \* stream_response: "message" (first loop), "tools" (second
                    \*   loop), "done" (Ok), "failed" (Err)
    dec_message,    \* stream_response's `message`
    dec_tool_uses,  \* stream_response's `tool_uses`
    partial_json,   \* stream_response's `partial_json`
    stream,         \* the provider's side of the event stream
    sent_blocks,    \* the tool_use blocks the provider has started, in order
    \* ---- text_editor client (client.rs) ----
    view_call       \* the last call_view: its view_range argument, and the
                    \*   ViewRequest it sent or the error it returned

editorVars == <<disk, file_history, last, nOps, nShellOps, edit_chain, in_flight>>
serVars == <<ser_exchanges, ser_body>>
agentVars == <<pc, exchanges, exchange, response, toolIdx, notified, sigint, request,
               requestPrompt, ids, toolLog, rpcLog, dropped, event>>
bashVars == <<hpc, mutex, waiters, todo, callOf, nCalls, handle, input_chan, pty_in,
              shell, pty_out, output_chan, bash_output, bash_last, echo_alive,
              server_up, t_ioc_read_invoc>>
decodeVars == <<dphase, dec_message, dec_tool_uses, partial_json, stream, sent_blocks>>
clientVars == <<view_call>>
vars == <<editorVars, serVars, agentVars, bashVars, decodeVars, clientVars>>

\* what a step of one subsystem leaves alone
nonEditorVars == <<serVars, agentVars, bashVars, decodeVars, clientVars>>
nonSerVars == <<editorVars, agentVars, bashVars, decodeVars, clientVars>>
nonAgentVars == <<editorVars, serVars, bashVars, decodeVars, clientVars>>
nonBashVars == <<editorVars, serVars, agentVars, decodeVars, clientVars>>
nonDecodeVars == <<editorVars, serVars, agentVars, bashVars, clientVars>>
nonClientVars == <<editorVars, serVars, agentVars, bashVars, decodeVars>>

----------------------------------------------------------------------------
(* Bounds of the editor model *)

\* longest file content explored
MaxLen == 3
\* number of editor RPCs in one behaviour
MaxOps == 3
\* number of times the shell removes or rewrites a file in one behaviour
MaxShellOps == 1

----------------------------------------------------------------------------
(* Text helpers *)

NL == "\n"
Char == {"a", "b", NL}

RECURSIVE TextsOfLen(_)
TextsOfLen(n) ==
    IF n = 0 THEN {<<>>}
    ELSE {Append(t, c) : t \in TextsOfLen(n - 1), c \in Char}

RECURSIVE TextsUpTo(_)
TextsUpTo(n) == IF n = 0 THEN TextsOfLen(0) ELSE TextsOfLen(n) \cup TextsUpTo(n - 1)

\* s[from .. to], 1-based and inclusive (empty when from > to)
Slice(s, from, to) == SubSeq(s, from, to)

\* pat occurs in s starting at 0-based offset i
OccursAt(s, pat, i) ==
    /\ i >= 0
    /\ i + Len(pat) <= Len(s)
    /\ Slice(s, i + 1, i + Len(pat)) = pat

\* every 0-based offset at which pat occurs in s, overlapping occurrences included
Occurrences(s, pat) == {i \in 0 .. Len(s) : OccursAt(s, pat, i)}

Min(S) == CHOOSE x \in S : \A y \in S : x <= y

\* str::find: the 0-based offset of the first occurrence, or -1 for None
find(s, pat) == IF Occurrences(s, pat) = {} THEN -1 ELSE Min(Occurrences(s, pat))

\* str::matches(pat).count(): a left-to-right scan that resumes after the end of
\* each match, so matches never overlap; an empty pattern matches at every
\* character boundary
RECURSIVE matches_from(_, _, _)
matches_from(s, pat, i) ==
    IF i > Len(s) THEN 0
    ELSE IF pat = <<>> THEN 1 + matches_from(s, pat, i + 1)
    ELSE IF OccursAt(s, pat, i) THEN 1 + matches_from(s, pat, i + Len(pat))
    ELSE matches_from(s, pat, i + 1)

matches_count(s, pat) == matches_from(s, pat, 0)

\* String::replace_range(index .. index + len, replacement)
replace_range(s, index, len, replacement) ==
    Slice(s, 1, index) \o replacement \o Slice(s, index + len + 1, Len(s))

\* String::insert_str(index, text)
insert_str(s, index, text) ==
    Slice(s, 1, index) \o text \o Slice(s, index + 1, Len(s))

\* 0-based offsets of the newline characters of s, in increasing order
NewlineOffsets(s) == {i \in 0 .. Len(s) - 1 : s[i + 1] = NL}

RECURSIVE SortedSeq(_)
SortedSeq(S) == IF S = {} THEN <<>> ELSE <<Min(S)>> \o SortedSeq(S \ {Min(S)})

saturating_sub(a, b) == IF a > b THEN a - b ELSE 0

----------------------------------------------------------------------------
(* Editor state *)

AbsPath == <<"/", "p">>
RelPath == <<"p">>
Paths == {AbsPath, RelPath}

NoFile == [exists |-> FALSE, text |-> <<>>]
File(text) == [exists |-> TRUE, text |-> text]

NoEntry == [present |-> FALSE, latest |-> <<>>, history |-> <<>>]
FileHistoryEntry(latest, history) ==
    [present |-> TRUE, latest |-> latest, history |-> history]

\* the outcome of an editor handler: the status and the state it leaves
Outcome(ok, err, d, h) == [ok |-> ok, err |-> err, disk |-> d, hist |-> h]
Fail(err, d, h) == Outcome(FALSE, err, d, h)

\* Path::is_absolute
\* a faulty variant of is_absolute that accepts every path
is_absolute_any(path) == TRUE

is_absolute(path) == Len(path) > 0 /\ path[1] = "/"

\* a faulty variant of write that updates the history entry before the disk
\* write and keeps the update when the disk write fails
write_records_first(d, h, path, content, io_ok) ==
    LET hist == IF h[path].present
                THEN [h EXCEPT ![path] =
                        FileHistoryEntry(content, Append(h[path].history, h[path].latest))]
                ELSE [h EXCEPT ![path] = FileHistoryEntry(content, <<>>)]
    IN  IF ~io_ok THEN Fail("io", d, hist)
        ELSE Outcome(TRUE, "", [d EXCEPT ![path] = File(content)], hist)

\* async fn write: the disk write first, then the history entry under the lock
write(d, h, path, content, io_ok) ==
    IF ~io_ok THEN Fail("io", d, h)
    ELSE Outcome(TRUE, "", [d EXCEPT ![path] = File(content)],
            IF h[path].present
            THEN [h EXCEPT ![path] =
                    FileHistoryEntry(content, Append(h[path].history, h[path].latest))]
            ELSE [h EXCEPT ![path] = FileHistoryEntry(content, <<>>)])

\* async fn create
create(d, h, path, file_text, io_ok) ==
    IF ~is_absolute(path) THEN Fail("not_absolute", d, h)
    ELSE IF d[path].exists THEN Fail("already_exists", d, h)
    ELSE write(d, h, path, file_text, io_ok)

\* async fn string_replace
string_replace(d, h, path, to_replace, replacement, io_ok) ==
    IF ~is_absolute(path) THEN Fail("not_absolute", d, h)
    ELSE IF ~d[path].exists THEN Fail("io", d, h)
    ELSE LET content == d[path].text
             index == find(content, to_replace)
         IN  IF index < 0 THEN Fail("no_match", d, h)
             ELSE IF matches_count(content, to_replace) > 1 THEN Fail("multiple_matches", d, h)
             ELSE write(d, h, path,
                        replace_range(content, index, Len(to_replace), replacement), io_ok)

\* a faulty variant of advance_by_fails that lets every line number pass
advance_by_never_fails(newline_count, skip) == FALSE

\* Iterator::advance_by(skip) over the newline offsets fails when there are
\* fewer than skip of them
advance_by_fails(newline_count, skip) == newline_count < skip

\* async fn insert
insert(d, h, path, line_number, line, io_ok) ==
    IF ~is_absolute(path) THEN Fail("not_absolute", d, h)
    ELSE IF ~d[path].exists THEN Fail("io", d, h)
    ELSE LET content == d[path].text
             skip == saturating_sub(line_number, 1)
             newlines == SortedSeq(NewlineOffsets(content))
         IN  IF advance_by_fails(Len(newlines), skip) THEN Fail("line_past_end", d, h)
             ELSE LET index == IF Len(newlines) > skip THEN newlines[skip + 1]
                               ELSE Len(content)
                  IN  write(d, h, path, insert_str(content, index, <<NL>> \o line), io_ok)

\* content.split("\n"): the pieces between the newlines, k + 1 of them for k newlines
RECURSIVE split_lines(_)
split_lines(s) ==
    LET nl == NewlineOffsets(s)
    IN  IF nl = {} THEN <<s>>
        ELSE <<Slice(s, 1, Min(nl))>> \o split_lines(Slice(s, Min(nl) + 2, Len(s)))

\* `let padding = 4` of Snippet::new
Padding == 4

NoRange == [present |-> FALSE, start |-> 0, end |-> 0]
Range(start, end) == [present |-> TRUE, start |-> start, end |-> end]

NoSnippet == [start |-> 0, lines |-> <<>>]

\* a faulty variant of Snippet::new without the lines of context
Snippet_unpadded(content, range) ==
    LET lines == split_lines(content)
    IN  IF ~range.present THEN [start |-> 1, lines |-> lines]
        ELSE [start |-> 1 + range.start,
              lines |-> Slice(lines, range.start + 1, Min({Len(lines), range.end}))]

\* Snippet::new(content, range)
Snippet(content, range) ==
    LET lines == split_lines(content)
    IN  IF ~range.present THEN [start |-> 1, lines |-> lines]
        ELSE LET start == saturating_sub(range.start, Padding)
                 taken == Min({Len(lines), range.end + Padding})
             IN  [start |-> 1 + start, lines |-> Slice(lines, start + 1, taken)]

NoEnd == -1

\* a faulty variant of read_to_string that consumes the file it reads
read_to_string_consuming(d, path) ==
    [ok |-> d[path].exists, content |-> d[path].text,
     disk |-> [d EXCEPT ![path] = NoFile]]

\* fs::read_to_string: the content of the file, and the disk as it leaves it
read_to_string(d, path) ==
    [ok |-> d[path].exists, content |-> d[path].text, disk |-> d]

\* async fn view; view_range.end = NoEnd stands for None
view(d, path, view_range) ==
    IF ~is_absolute(path)
    THEN [ok |-> FALSE, err |-> "not_absolute", snippet |-> NoSnippet, disk |-> d]
    ELSE LET read == read_to_string(d, path)
             content == read.content
         IN  IF ~read.ok
             THEN [ok |-> FALSE, err |-> "io", snippet |-> NoSnippet, disk |-> read.disk]
             ELSE IF ~view_range.present
             THEN [ok |-> TRUE, err |-> "", snippet |-> Snippet(content, NoRange),
                   disk |-> read.disk]
             ELSE LET start == saturating_sub(view_range.start, 1)
                      end == IF view_range.end = NoEnd
                             THEN Cardinality(NewlineOffsets(content)) + 1
                             ELSE view_range.end
                  IN  [ok |-> TRUE, err |-> "",
                       snippet |-> Snippet(content, Range(start, end)),
                       disk |-> read.disk]

\* fn to_status: every error of an editor handler becomes Status::unknown
to_status(err) == "Unknown"

\* a faulty variant of undo_edit: a failed disk write loses the popped content
undo_edit_forgets(d, h, path, io_ok) ==
    IF ~is_absolute(path) THEN Fail("not_absolute", d, h)
    ELSE IF ~h[path].present THEN Fail("no_history", d, h)
    ELSE IF h[path].history = <<>> THEN Fail("oldest_change", d, h)
    ELSE LET n == Len(h[path].history)
             new_latest == h[path].history[n]
             popped == [h EXCEPT ![path] =
                        FileHistoryEntry(h[path].latest, Slice(h[path].history, 1, n - 1))]
         IN  IF ~io_ok THEN Fail("io", d, popped)
             ELSE Outcome(TRUE, "", [d EXCEPT ![path] = File(new_latest)],
                     [h EXCEPT ![path] =
                        FileHistoryEntry(new_latest, Slice(h[path].history, 1, n - 1))])

\* async fn undo_edit
undo_edit(d, h, path, io_ok) ==
    IF ~is_absolute(path) THEN Fail("not_absolute", d, h)
    ELSE IF ~h[path].present THEN Fail("no_history", d, h)
    ELSE IF h[path].history = <<>> THEN Fail("oldest_change", d, h)
    ELSE LET n == Len(h[path].history)
             new_latest == h[path].history[n]
         IN  IF ~io_ok THEN Fail("io", d, h)
             ELSE Outcome(TRUE, "", [d EXCEPT ![path] = File(new_latest)],
                     [h EXCEPT ![path] =
                        FileHistoryEntry(new_latest, Slice(h[path].history, 1, n - 1))])

----------------------------------------------------------------------------
(* Editor actions: one RPC handler each *)

\* files that may exist before the server starts
InitialFiles ==
    {NoFile, File(<<"a", "a", "a">>), File(<<"a", NL, "b">>), File(<<"b", "a">>)}

Request(op, path, arg) == [op |-> op, path |-> path, arg |-> arg]

\* the record of an RPC: the request, the status returned, the snippet returned
\* by View, and the file before it
Rpc(op, path, arg, ok, err, snippet, pre) ==
    [op |-> op, path |-> path, arg |-> arg, ok |-> ok, err |-> err,
     code |-> IF ok THEN "Ok" ELSE to_status(err), snippet |-> snippet, pre |-> pre]

NoRpc ==
    [op |-> "none", path |-> AbsPath, arg |-> <<>>, ok |-> FALSE, err |-> "",
     code |-> "Ok", snippet |-> NoSnippet, pre |-> NoFile]

\* the editor handlers that run concurrently
EditHandlers == {1, 2}

NoCall == [pc |-> "idle", op |-> "none", arg |-> <<>>, io_ok |-> TRUE,
           content |-> <<>>, ok |-> FALSE, err |-> ""]

NoneInFlight ==
    [start |-> [disk |-> [p \in Paths |-> NoFile],
                hist |-> [p \in Paths |-> NoEntry]],
     calls |-> [h \in EditHandlers |-> NoCall]]

InitEditor ==
    /\ disk \in {d \in [Paths -> InitialFiles] :
                    d[RelPath] \in {NoFile, File(<<"b", "a">>)}}
    /\ file_history = [p \in Paths |-> NoEntry]
    /\ last = NoRpc
    /\ nOps = 0
    /\ nShellOps = 0
    /\ edit_chain = <<>>
    /\ in_flight = NoneInFlight

\* the contents produced since the last successful Create of AbsPath, after the
\* handler of op returned r: Create starts the chain, an edit extends it, an
\* UndoEdit takes its last element away
Followed(op, path, r) ==
    IF path # AbsPath \/ ~r.ok THEN edit_chain
    ELSE IF op = "create" THEN <<r.disk[path].text>>
    ELSE IF op = "undo_edit"
    THEN (IF Len(edit_chain) > 1 THEN Slice(edit_chain, 1, Len(edit_chain) - 1) ELSE <<>>)
    ELSE (IF edit_chain # <<>> THEN Append(edit_chain, r.disk[path].text) ELSE <<>>)

\* the handler ran to its end with outcome r
Handled(op, path, arg, r) ==
    /\ nOps < MaxOps
    /\ r.disk[path].exists => Len(r.disk[path].text) <= MaxLen
    /\ disk' = r.disk
    /\ file_history' = r.hist
    /\ last' = Rpc(op, path, arg, r.ok, r.err, NoSnippet, disk[path])
    /\ nOps' = nOps + 1
    /\ edit_chain' = Followed(op, path, r)
    /\ UNCHANGED <<nShellOps, in_flight>>
    /\ UNCHANGED nonEditorVars

Create ==
    \E path \in Paths, file_text \in TextsUpTo(2), io_ok \in BOOLEAN :
        Handled("create", path, file_text,
                create(disk, file_history, path, file_text, io_ok))

StringReplace ==
    \E path \in Paths, to_replace \in TextsUpTo(2), replacement \in TextsUpTo(1),
       io_ok \in BOOLEAN :
        Handled("string_replace", path, to_replace,
                string_replace(disk, file_history, path, to_replace, replacement, io_ok))

Insert ==
    \E path \in Paths, line_number \in 0 .. 3, line \in TextsUpTo(1), io_ok \in BOOLEAN :
        Handled("insert", path, [line_number |-> line_number, line |-> line],
                insert(disk, file_history, path, line_number, line, io_ok))

UndoEdit ==
    \E path \in Paths, io_ok \in BOOLEAN :
        Handled("undo_edit", path, <<>>, undo_edit(disk, file_history, path, io_ok))

ViewRanges ==
    {NoRange} \cup {Range(start, end) : start \in 0 .. 2, end \in {NoEnd, 1, 2}}

\* the View handler: it reads the file and returns; at most `calls` RPCs in a
\* behaviour
ViewOf(ranges, calls) ==
    /\ nOps < calls
    /\ \E path \in Paths, view_range \in ranges :
        LET r == view(disk, path, view_range)
        IN  /\ disk' = r.disk
            /\ last' = Rpc("view", path, view_range, r.ok, r.err, r.snippet, disk[path])
    /\ nOps' = nOps + 1
    /\ UNCHANGED <<file_history, nShellOps, edit_chain, in_flight>>
    /\ UNCHANGED nonEditorVars

View == ViewOf(ViewRanges, MaxOps)

\* lines of the longest file viewed under SpecView
MaxViewLines == 11

\* line i of the files viewed under SpecView: i letters
LineOf(i) == [k \in 1 .. i |-> "a"]

\* a file of n lines without a newline at its end
RECURSIVE LongText(_)
LongText(n) == IF n = 1 THEN LineOf(1) ELSE LongText(n - 1) \o <<NL>> \o LineOf(n)

\* a file of several lines, with or without a newline at its end, or an empty one
InitView ==
    /\ \E t \in {LongText(n) : n \in 1 .. MaxViewLines}
                \cup {LongText(n) \o <<NL>> : n \in 1 .. MaxViewLines - 1} \cup {<<>>} :
        disk = [p \in Paths |-> IF p = AbsPath THEN File(t) ELSE NoFile]
    /\ file_history = [p \in Paths |-> NoEntry]
    /\ last = NoRpc
    /\ nOps = 0
    /\ nShellOps = 0
    /\ edit_chain = <<>>
    /\ in_flight = NoneInFlight

LongViewRanges ==
    {NoRange} \cup {Range(start, end) : start \in 0 .. MaxViewLines + 1,
                                        end \in {NoEnd} \cup (0 .. MaxViewLines + 1)}

\* one View of a long file: View changes nothing, so a second one adds no case
ViewLong == ViewOf(LongViewRanges, 1)

\* a command run by the shell removes the file or rewrites it
ShellWrite ==
    /\ nShellOps < MaxShellOps
    /\ \E f \in {NoFile, File(<<"b">>)} :
        /\ disk[AbsPath] # f
        /\ disk' = [disk EXCEPT ![AbsPath] = f]
    /\ last' = Rpc("shell", AbsPath, <<>>, TRUE, "", NoSnippet, disk[AbsPath])
    /\ nShellOps' = nShellOps + 1
    /\ edit_chain' = <<>>
    /\ UNCHANGED <<file_history, nOps, in_flight>>
    /\ UNCHANGED nonEditorVars

NextEditor == View \/ Create \/ StringReplace \/ Insert \/ UndoEdit \/ ShellWrite

\* the editor at rest, for the specifications of the other subsystems
IdleEditor ==
    /\ disk = [p \in Paths |-> NoFile]
    /\ file_history = [p \in Paths |-> NoEntry]
    /\ last = NoRpc
    /\ nOps = 0
    /\ nShellOps = 0
    /\ edit_chain = <<>>
    /\ in_flight = NoneInFlight

----------------------------------------------------------------------------
(* Editor handlers running concurrently: tonic serves each RPC in its own
   task, and a handler can be suspended at each .await *)

\* the states the concurrent calls start from: a file the editor created, and
\* possibly edited once
InitEditorConc ==
    /\ \E t \in TextsUpTo(2), entry \in {0, 1, 2}, older \in {<<>>, <<"b">>} :
        /\ disk = [p \in Paths |-> IF p = AbsPath THEN File(t) ELSE NoFile]
        /\ file_history =
              [p \in Paths |->
                IF p # AbsPath \/ entry = 0 THEN NoEntry
                ELSE IF entry = 1 THEN FileHistoryEntry(t, <<>>)
                ELSE FileHistoryEntry(t, <<older>>)]
    /\ in_flight = [NoneInFlight EXCEPT !.start = [disk |-> disk, hist |-> file_history]]
    /\ last = NoRpc
    /\ nOps = 0
    /\ nShellOps = 0
    /\ edit_chain = <<>>

\* the requests of the concurrent calls, all on AbsPath
ConcRequests ==
    {[op |-> "string_replace", arg |-> [to_replace |-> a, replacement |-> b]] :
        a \in TextsOfLen(1), b \in {<<"b">>, <<>>}}
    \cup {[op |-> "insert", arg |-> [line_number |-> n, line |-> <<"a">>]] : n \in 1 .. 2}
    \cup {[op |-> "undo_edit", arg |-> <<>>]}

\* the handler of op run without interruption
Sequential(d, h, req, io_ok) ==
    IF req.op = "string_replace"
    THEN string_replace(d, h, AbsPath, req.arg.to_replace, req.arg.replacement, io_ok)
    ELSE IF req.op = "insert"
    THEN insert(d, h, AbsPath, req.arg.line_number, req.arg.line, io_ok)
    ELSE undo_edit(d, h, AbsPath, io_ok)

\* a request arrives and its handler task starts
ConcCall(h) ==
    /\ in_flight.calls[h].pc = "idle"
    /\ \E req \in ConcRequests, io_ok \in BOOLEAN :
        in_flight' = [in_flight EXCEPT !.calls[h] =
            [NoCall EXCEPT !.pc = "called", !.op = req.op, !.arg = req.arg,
                           !.io_ok = io_ok]]
    /\ UNCHANGED <<disk, file_history, last, nOps, nShellOps, edit_chain>>
    /\ UNCHANGED nonEditorVars

\* string_replace and insert up to their call of write: the path is checked,
\* the file is read and the new content is computed, all without the lock
ConcRead(h) ==
    LET c == in_flight.calls[h]
        r == Sequential(disk, file_history, c, TRUE)
    IN  /\ c.pc = "called"
        /\ c.op \in {"string_replace", "insert"}
        /\ in_flight' = [in_flight EXCEPT !.calls[h] =
                IF r.ok
                THEN [c EXCEPT !.pc = "write", !.content = r.disk[AbsPath].text]
                ELSE [c EXCEPT !.pc = "done", !.ok = FALSE, !.err = r.err]]
        /\ UNCHANGED <<disk, file_history, last, nOps, nShellOps, edit_chain>>
        /\ UNCHANGED nonEditorVars

\* write: the lock is taken, the file is written and the history entry
\* updated, and the lock is dropped at the return
ConcWrite(h) ==
    LET c == in_flight.calls[h]
        r == write(disk, file_history, AbsPath, c.content, c.io_ok)
    IN  /\ c.pc = "write"
        /\ disk' = r.disk
        /\ file_history' = r.hist
        /\ in_flight' = [in_flight EXCEPT !.calls[h] =
                [c EXCEPT !.pc = "done", !.ok = r.ok, !.err = r.err]]
        /\ UNCHANGED <<last, nOps, nShellOps, edit_chain>>
        /\ UNCHANGED nonEditorVars

\* undo_edit: the lock is held from the lookup of the entry to the return
ConcUndo(h) ==
    LET c == in_flight.calls[h]
        r == undo_edit(disk, file_history, AbsPath, c.io_ok)
    IN  /\ c.pc = "called"
        /\ c.op = "undo_edit"
        /\ disk' = r.disk
        /\ file_history' = r.hist
        /\ in_flight' = [in_flight EXCEPT !.calls[h] =
                [c EXCEPT !.pc = "done", !.ok = r.ok, !.err = r.err]]
        /\ UNCHANGED <<last, nOps, nShellOps, edit_chain>>
        /\ UNCHANGED nonEditorVars

NextEditorConc ==
    \E h \in EditHandlers : ConcCall(h) \/ ConcRead(h) \/ ConcWrite(h) \/ ConcUndo(h)

----------------------------------------------------------------------------
(* Claims about the editor *)

EditorStep == nOps' = nOps + 1
IsEdit(op) == op \in {"create", "string_replace", "insert"}

\* C1: after any successful Create, StringReplace or Insert on a path, the first
\* editor write to that path included, an immediately following UndoEdit of the
\* path (whose own disk write does not fail) succeeds and leaves on disk exactly
\* what the file held just before that edit.
C1_UndoRestoresPrior ==
    [][(/\ EditorStep
        /\ IsEdit(last.op) /\ last.ok
        /\ last'.op = "undo_edit" /\ last'.path = last.path
        /\ last'.err # "io")
       => (last'.ok /\ disk'[last.path] = last.pre)]_vars

\* C2: a StringReplace whose to_replace occurs at two or more start offsets of
\* the file (overlapping occurrences included), or at none, fails and leaves
\* the disk and file_history as they were.
C2_ReplaceNeedsUniqueOccurrence ==
    [][(/\ EditorStep
        /\ last'.op = "string_replace"
        /\ is_absolute(last'.path) /\ disk[last'.path].exists
        /\ Cardinality(Occurrences(disk[last'.path].text, last'.arg)) # 1)
       => (~last'.ok /\ disk' = disk /\ file_history' = file_history)]_vars

IsEditorRpc(op) == op \in {"view", "create", "string_replace", "insert", "undo_edit"}

\* C12: every editor RPC (View, Create, StringReplace, Insert, UndoEdit) called
\* with a non-absolute path fails on the path check itself, not on a read of
\* the file, and leaves the file system and file_history as they were.
C12_RelativePathRejected ==
    [][(EditorStep /\ ~(Len(last'.path) > 0 /\ last'.path[1] = "/"))
       => (/\ IsEditorRpc(last'.op)
           /\ ~last'.ok
           /\ last'.err = "not_absolute"
           /\ disk' = disk
           /\ file_history' = file_history)]_vars

\* a Create with a relative path whose file does not exist has been refused
\* after an edit of the absolute path gave file_history an entry
C12_Witness ==
    /\ last.op = "create"
    /\ last.path = RelPath
    /\ ~last.ok
    /\ ~disk[RelPath].exists
    /\ file_history[AbsPath] # NoEntry

\* the status code each editor failure is expected to carry
ExpectedCode(err) ==
    CASE err \in {"not_absolute", "multiple_matches", "line_past_end"} -> "InvalidArgument"
      [] err \in {"no_match", "no_history"} -> "NotFound"
      [] err = "already_exists" -> "AlreadyExists"
      [] err = "oldest_change" -> "ResourceExhausted"

\* C13: the server reports editor failures with distinct status codes:
\* InvalidArgument for a non-absolute path, a non-unique StringReplace match and
\* an Insert line number past the file; NotFound for a string that is not found
\* and for UndoEdit without a history entry; AlreadyExists for Create on an
\* existing path; ResourceExhausted for UndoEdit on an empty history stack.
C13_DistinctStatusCodes ==
    (IsEditorRpc(last.op) /\ ~last.ok /\ last.err # "io")
        => last.code = ExpectedCode(last.err)

\* C14: undo is a stack. After Create(p, t0) followed by k >= 0 successful
\* StringReplace/Insert edits producing t1 .. tk, an UndoEdit(p) succeeds while
\* k > 0, leaves t(k-1) on disk and shrinks the history stack by one; with k = 0
\* it fails, leaving t0 on disk and the history entry unchanged.
C14_UndoIsAStack ==
    [][(/\ EditorStep
        /\ last'.op = "undo_edit"
        /\ last'.path = AbsPath
        /\ last'.err # "io"
        /\ edit_chain # <<>>)
       => LET k == Len(edit_chain) - 1
          IN  IF k > 0
              THEN /\ last'.ok
                   /\ disk'[AbsPath] = File(edit_chain[k])
                   /\ Len(file_history'[AbsPath].history) =
                        Len(file_history[AbsPath].history) - 1
              ELSE /\ ~last'.ok
                   /\ disk'[AbsPath] = File(edit_chain[1])
                   /\ file_history' = file_history]_vars

\* C15: Create(path, text) fails and leaves the file and file_history unchanged
\* whenever the file already exists; whenever it succeeds, the file contains
\* text and the history entry of path is exactly latest = text with an empty
\* history stack, whatever happened on that path before.
C15_CreateStartsHistory ==
    [][(EditorStep /\ last'.op = "create")
       => /\ (is_absolute(last'.path) /\ disk[last'.path].exists)
                => (~last'.ok /\ disk' = disk /\ file_history' = file_history)
          /\ last'.ok
                => /\ disk'[last'.path] = File(last'.arg)
                   /\ file_history'[last'.path] = FileHistoryEntry(last'.arg, <<>>)]_vars

\* the text whose lines are these: the lines joined by newlines
RECURSIVE join_lines(_)
join_lines(lines) ==
    IF Len(lines) = 0 THEN <<>>
    ELSE IF Len(lines) = 1 THEN lines[1]
    ELSE lines[1] \o <<NL>> \o join_lines(Tail(lines))

\* C16: a successful Insert(path, n, text) on a file whose lines are L1 .. Lk
\* produces L1 .. Ln, text, L(n+1) .. Lk (for n = 0: text, L1 .. Lk), and the
\* pre-edit content is pushed onto the history of the path.
C16_InsertAfterLine ==
    [][(EditorStep /\ last'.op = "insert" /\ last'.ok)
       => LET path == last'.path
              n == last'.arg.line_number
              L == split_lines(disk[path].text)
          IN  /\ disk'[path] =
                    File(join_lines(Slice(L, 1, n) \o <<last'.arg.line>>
                                    \o Slice(L, n + 1, Len(L))))
              /\ file_history'[path].history =
                    Append(file_history[path].history, disk[path].text)]_vars

\* the line-placement half of C16 alone, for line numbers from 1 on
InsertPlacesLine ==
    [][(EditorStep /\ last'.op = "insert" /\ last'.ok /\ last'.arg.line_number >= 1)
       => LET path == last'.path
              n == last'.arg.line_number
              L == split_lines(disk[path].text)
          IN  disk'[path] =
                    File(join_lines(Slice(L, 1, n) \o <<last'.arg.line>>
                                    \o Slice(L, n + 1, Len(L))))]_vars

\* the line-placement half of C16 alone, for line number 0
InsertBeforeFirstLine ==
    [][(EditorStep /\ last'.op = "insert" /\ last'.ok /\ last'.arg.line_number = 0)
       => disk'[last'.path] = File(last'.arg.line \o <<NL>> \o disk[last'.path].text)]_vars

NewlineCount(s) == Cardinality(NewlineOffsets(s))

\* C17 as stated: Insert(path, n, text) fails, leaving the file and its history
\* unchanged, for every n greater than the number of newline characters in the
\* file.
C17_InsertFailsPastNewlineCount ==
    [][(/\ EditorStep
        /\ last'.op = "insert"
        /\ is_absolute(last'.path) /\ disk[last'.path].exists
        /\ last'.arg.line_number > NewlineCount(disk[last'.path].text))
       => (~last'.ok /\ disk' = disk /\ file_history' = file_history)]_vars

\* C17 amended: Insert(path, n, text) fails, leaving the file and its history
\* unchanged, for every n greater than the number of lines of the file, which
\* is its number of newline characters plus one; n equal to the number of
\* lines is accepted and inserts after the last line.
C17_InsertFailsPastLastLine ==
    [][(/\ EditorStep
        /\ last'.op = "insert"
        /\ is_absolute(last'.path) /\ disk[last'.path].exists)
       => LET n == last'.arg.line_number
              lines == NewlineCount(disk[last'.path].text) + 1
          IN  /\ n > lines
                    => /\ ~last'.ok
                       /\ last'.err = "line_past_end"
                       /\ disk' = disk
                       /\ file_history' = file_history
              /\ n <= lines => last'.err # "line_past_end"]_vars

\* an Insert just past the last line of a two-line file has been refused
C17_Witness ==
    /\ last.op = "insert"
    /\ last.path = AbsPath
    /\ last.pre.exists
    /\ NewlineCount(last.pre.text) = 1
    /\ last.arg.line_number = 3
    /\ ~last.ok
    /\ disk[AbsPath] = last.pre

\* C20: View never changes state: after View(path, r), whether it succeeds or
\* fails, the file contents and file_history are the same as before, so two
\* consecutive View(path, r) calls return equal results and equal snippets.
C20_ViewChangesNothing ==
    [][(EditorStep /\ last'.op = "view")
       => /\ disk' = disk
          /\ file_history' = file_history
          /\ (last.op = "view" /\ last.path = last'.path /\ last.arg = last'.arg)
                => (/\ last'.ok = last.ok
                    /\ last'.err = last.err
                    /\ last'.snippet = last.snippet)]_vars

\* a View with a range has returned the two lines of a file that has a history
\* entry, after an earlier RPC
C20_Witness ==
    /\ last.op = "view"
    /\ last.ok
    /\ last.arg.present
    /\ Len(last.snippet.lines) = 2
    /\ file_history[last.path].present
    /\ nOps >= 2

\* the disk and history after the calls of handlers h1 and then h2 run one
\* after the other from the state the concurrent calls started in
SequentialOutcome(h1, h2) ==
    LET c1 == in_flight.calls[h1]
        c2 == in_flight.calls[h2]
        r1 == Sequential(in_flight.start.disk, in_flight.start.hist, c1, c1.io_ok)
        r2 == Sequential(r1.disk, r1.hist, c2, c2.io_ok)
    IN  [disk |-> r2.disk, hist |-> r2.hist, ok |-> (h1 :> r1.ok) @@ (h2 :> r2.ok)]

AllDone == \A h \in EditHandlers : in_flight.calls[h].pc = "done"

\* C21: editor operations on one path are serialized even when their handlers
\* run concurrently: once two StringReplace/Insert/UndoEdit calls have both
\* returned, the file and the history equal those of one of the two sequential
\* orders of the calls, so no edit is lost.
C21_EditsSerialized ==
    AllDone =>
        \E h1 \in EditHandlers : \E h2 \in EditHandlers \ {h1} :
            LET s == SequentialOutcome(h1, h2)
            IN  /\ disk = s.disk
                /\ file_history = s.hist

\* C23: as long as no writer other than the editor has touched the files, each
\* path with a history entry has `latest` equal to the file's contents on
\* disk, after any sequence of Create, StringReplace, Insert and UndoEdit
\* calls, failing ones included.
C23_LatestIsOnDisk ==
    nShellOps = 0 =>
        \A p \in Paths :
            file_history[p].present => disk[p] = File(file_history[p].latest)

\* an edit of a file with two recorded contents has just failed on its disk write
C23_Witness ==
    /\ nShellOps = 0
    /\ IsEdit(last.op)
    /\ last.err = "io"
    /\ file_history[last.path].present
    /\ Len(file_history[last.path].history) = 1

Max(S) == CHOOSE x \in S : \A y \in S : y <= x

\* C28: for a file of N lines, View(path, (start, end)) returns Snippet.start =
\* max(start - 4, 1) and as lines exactly the file's lines max(start - 4, 1)
\* through min(end + 4, N), with end taken as N when absent; start = 0 and
\* start = 1 give the same result; View without a range returns start = 1 and
\* all N lines.
C28_ViewSnippet ==
    (last.op = "view" /\ last.ok) =>
        LET L == split_lines(last.pre.text)
            N == Len(L)
        IN  IF ~last.arg.present
            THEN last.snippet = [start |-> 1, lines |-> L]
            ELSE LET end == IF last.arg.end = NoEnd THEN N ELSE last.arg.end
                     first == Max({last.arg.start - 4, 1})
                     final == Min({end + 4, N})
                 IN  /\ last.snippet.start = first
                     /\ last.snippet.lines =
                            [i \in 1 .. (final - first + 1) |-> L[first + i - 1]]

\* a View of lines 6 to 6 of a file of 11 lines has returned lines 2 to 10
C28_Witness ==
    /\ last.op = "view"
    /\ last.ok
    /\ last.arg = Range(6, 6)
    /\ Len(split_lines(last.pre.text)) = 11
    /\ last.snippet.start = 2
    /\ Len(last.snippet.lines) = 9

----------------------------------------------------------------------------
(* Conversation model (common.rs) *)

\* Option<(String, bool)>: None, or the tool's text and whether it is an error
NoOutput == [present |-> FALSE, text |-> "", is_error |-> FALSE]
Output(text, is_error) == [present |-> TRUE, text |-> text, is_error |-> is_error]

\* struct ToolUse
ToolUse(name, id, input, output) ==
    [name |-> name, id |-> id, input |-> input, output |-> output]

\* an entry of Exchange::response: (String, Vec<ToolUse>)
Response(message, tool_uses) == [message |-> message, tool_uses |-> tool_uses]

\* struct Exchange
Exchange(prompt, resps) == [prompt |-> prompt, response |-> resps]

\* A JSON value of the shape tool inputs have: a number, or an object with at
\* most one member "k" whose value is again such a value.
JNum == [t |-> "num", fields |-> <<>>]
\* the number written with these digits; JNumber(<<"1">>) = JNum
JNumber(digits) == [t |-> "num", fields |-> [i \in 1 .. Len(digits) - 1 |-> JNum]]
JNull == [t |-> "null", fields |-> <<>>]
JEmptyObj == [t |-> "obj", fields |-> <<>>]
JObj(v) == [t |-> "obj", fields |-> <<v>>]

\* serde_json's Value::to_string: the compact text of a value
RECURSIVE json_to_string(_)
json_to_string(v) ==
    IF v.t = "num" THEN [i \in 1 .. Len(v.fields) + 1 |-> "1"]
    ELSE IF v.fields = <<>> THEN <<"{", "}">>
    ELSE <<"{", "k">> \o json_to_string(v.fields[1]) \o <<"}">>

CancelledText == "Operation cancelled by user"

\* a JSON string, and a JSON array, as the value of a "content" member
JString(x) == [string |-> x]
JArray(xs) == [array |-> xs]
IsArray(c) == "array" \in DOMAIN c

----------------------------------------------------------------------------
(* anthropic.rs: request serialization *)

anthropic_serialize_assistant_response(message, tool_uses) ==
    [role |-> "assistant",
     content |-> JArray(
        (IF message # <<>> THEN <<[type |-> "text", text |-> message]>> ELSE <<>>)
        \o [i \in 1 .. Len(tool_uses) |->
                [type |-> "tool_use", id |-> tool_uses[i].id,
                 name |-> tool_uses[i].name, input |-> tool_uses[i].input]])]

\* a faulty variant of anthropic_serialize_tool_results: the results in reverse order
anthropic_serialize_tool_results_reversed(tool_uses) ==
    [role |-> "user",
     content |-> JArray([i \in 1 .. Len(tool_uses) |->
        LET tu == tool_uses[Len(tool_uses) + 1 - i]
        IN  [type |-> "tool_result", tool_use_id |-> tu.id,
             content |-> IF tu.output.present THEN tu.output.text ELSE CancelledText,
             is_error |-> IF tu.output.present THEN tu.output.is_error ELSE TRUE]])]

\* a faulty variant of anthropic_serialize_tool_results: a missing output is
\* not reported as an error
anthropic_serialize_tool_results_lenient(tool_uses) ==
    [role |-> "user",
     content |-> JArray([i \in 1 .. Len(tool_uses) |->
        LET tu == tool_uses[i]
        IN  [type |-> "tool_result", tool_use_id |-> tu.id,
             content |-> IF tu.output.present THEN tu.output.text ELSE CancelledText,
             is_error |-> IF tu.output.present THEN tu.output.is_error ELSE FALSE]])]

anthropic_serialize_tool_results(tool_uses) ==
    [role |-> "user",
     content |-> JArray([i \in 1 .. Len(tool_uses) |->
        LET tu == tool_uses[i]
        IN  [type |-> "tool_result", tool_use_id |-> tu.id,
             content |-> IF tu.output.present THEN tu.output.text ELSE CancelledText,
             is_error |-> IF tu.output.present THEN tu.output.is_error ELSE TRUE]])]

\* a faulty variant of anthropic_response_messages: the tool-results message is
\* pushed for every turn, also for one without tool uses
RECURSIVE anthropic_response_messages_always_results(_)
anthropic_response_messages_always_results(resps) ==
    IF resps = <<>> THEN <<>>
    ELSE LET r == Head(resps)
         IN  <<anthropic_serialize_assistant_response(r.message, r.tool_uses),
               anthropic_serialize_tool_results(r.tool_uses)>>
             \o anthropic_response_messages_always_results(Tail(resps))

\* the inner loop of build_request_body: the messages of one exchange's responses
RECURSIVE anthropic_response_messages(_)
anthropic_response_messages(resps) ==
    IF resps = <<>> THEN <<>>
    ELSE LET r == Head(resps)
         IN  <<anthropic_serialize_assistant_response(r.message, r.tool_uses)>>
             \o (IF r.tool_uses # <<>>
                 THEN <<anthropic_serialize_tool_results(r.tool_uses)>> ELSE <<>>)
             \o anthropic_response_messages(Tail(resps))

\* the outer loop of build_request_body over exchanges.chain([current])
RECURSIVE anthropic_messages(_)
anthropic_messages(all) ==
    IF all = <<>> THEN <<>>
    ELSE <<[role |-> "user", content |-> JString(Head(all).prompt)]>>
         \o anthropic_response_messages(Head(all).response)
         \o anthropic_messages(Tail(all))

anthropic_build_request_body(prior, current) ==
    [provider |-> "anthropic", stream |-> TRUE,
     messages |-> anthropic_messages(Append(prior, current))]

----------------------------------------------------------------------------
(* openai.rs: request serialization *)

openai_serialize_assistant_response(message, tool_uses) ==
    LET tool_calls == [i \in 1 .. Len(tool_uses) |->
            [type |-> "function", id |-> tool_uses[i].id,
             function |-> [name |-> tool_uses[i].name,
                           arguments |-> json_to_string(tool_uses[i].input)]]]
    IN  IF tool_calls # <<>>
        THEN [role |-> "assistant", content |-> message, tool_calls |-> tool_calls]
        ELSE [role |-> "assistant", content |-> message]

openai_serialize_tool_result(tool_use) ==
    [role |-> "tool", tool_call_id |-> tool_use.id,
     content |-> IF tool_use.output.present THEN tool_use.output.text ELSE CancelledText]

RECURSIVE openai_response_messages(_)
openai_response_messages(resps) ==
    IF resps = <<>> THEN <<>>
    ELSE LET r == Head(resps)
         IN  <<openai_serialize_assistant_response(r.message, r.tool_uses)>>
             \o [i \in 1 .. Len(r.tool_uses) |-> openai_serialize_tool_result(r.tool_uses[i])]
             \o openai_response_messages(Tail(resps))

RECURSIVE openai_messages(_)
openai_messages(all) ==
    IF all = <<>> THEN <<>>
    ELSE <<[role |-> "user", content |-> Head(all).prompt]>>
         \o openai_response_messages(Head(all).response)
         \o openai_messages(Tail(all))

openai_build_request_body(prior, current) ==
    [provider |-> "openai", stream |-> TRUE,
     messages |-> <<[role |-> "system", content |-> "system-prompt"]>>
                  \o openai_messages(Append(prior, current))]

----------------------------------------------------------------------------
(* SpecSerialize: build_request_body applied to arbitrary conversations *)

\* exchanges in a serialized conversation, the current one included
MaxSerExchanges == 2
\* response entries in a serialized conversation
MaxSerResponses == 2
\* tool uses in a serialized conversation
MaxSerTools == 2

SerToolUses ==
    {ToolUse("bash", id, JEmptyObj, out) :
        id \in {"t1", "t2"},
        out \in {NoOutput, Output("bad", TRUE), Output("out", FALSE)}}

RECURSIVE SeqsUpTo(_, _)
SeqsUpTo(S, n) ==
    IF n = 0 THEN {<<>>}
    ELSE SeqsUpTo(S, n - 1)
         \cup {Append(q, x) : q \in {r \in SeqsUpTo(S, n - 1) : Len(r) = n - 1}, x \in S}

RECURSIVE SumLen(_)
SumLen(all) == IF all = <<>> THEN 0 ELSE Len(Head(all).response) + SumLen(Tail(all))

RECURSIVE SumTools(_)
SumTools(resps) ==
    IF resps = <<>> THEN 0
    ELSE Len(Head(resps).tool_uses) + SumTools(Tail(resps))

RECURSIVE SumAllTools(_)
SumAllTools(all) ==
    IF all = <<>> THEN 0 ELSE SumTools(Head(all).response) + SumAllTools(Tail(all))

NoBody == [provider |-> "none", stream |-> FALSE, messages |-> <<>>]

InitSerialize ==
    /\ ser_exchanges \in {<<Exchange(p, <<>>)>> : p \in {1}}
    /\ ser_body = NoBody

\* a further exchange becomes the current one
SerNewExchange ==
    /\ Len(ser_exchanges) < MaxSerExchanges
    /\ ser_exchanges' = Append(ser_exchanges, Exchange(Len(ser_exchanges) + 1, <<>>))
    /\ ser_body' = NoBody
    /\ UNCHANGED nonSerVars

\* a response entry is appended to the current exchange
SerAddResponse ==
    /\ SumLen(ser_exchanges) < MaxSerResponses
    /\ \E message \in {<<>>, <<7>>},
          tool_uses \in SeqsUpTo(SerToolUses, MaxSerTools - SumAllTools(ser_exchanges)) :
        ser_exchanges' =
            [ser_exchanges EXCEPT ![Len(ser_exchanges)].response =
                Append(@, Response(message, tool_uses))]
    /\ ser_body' = NoBody
    /\ UNCHANGED nonSerVars

SerPrior == SubSeq(ser_exchanges, 1, Len(ser_exchanges) - 1)
SerCurrent == ser_exchanges[Len(ser_exchanges)]

SerBuildAnthropic ==
    /\ ser_body' = anthropic_build_request_body(SerPrior, SerCurrent)
    /\ UNCHANGED <<ser_exchanges, nonSerVars>>

SerBuildOpenAI ==
    /\ ser_body' = openai_build_request_body(SerPrior, SerCurrent)
    /\ UNCHANGED <<ser_exchanges, nonSerVars>>

NextSerialize == SerNewExchange \/ SerAddResponse \/ SerBuildAnthropic \/ SerBuildOpenAI

IdleSerialize ==
    /\ ser_exchanges = <<>>
    /\ ser_body = NoBody

----------------------------------------------------------------------------
(* Claims about request serialization *)

\* the tool_use blocks of an Anthropic assistant message, in order
AnthropicToolUseIds(m) ==
    LET blocks == m.content.array
        idx == {i \in 1 .. Len(blocks) : blocks[i].type = "tool_use"}
    IN  [k \in 1 .. Cardinality(idx) |-> blocks[SortedSeq(idx)[k]].id]

IsAnthropicToolResults(m) ==
    /\ m.role = "user"
    /\ IsArray(m.content)

AnthropicPaired(M) ==
    /\ \A i \in 1 .. Len(M) :
        (M[i].role = "assistant" /\ AnthropicToolUseIds(M[i]) # <<>>) =>
            /\ i < Len(M)
            /\ IsAnthropicToolResults(M[i + 1])
            /\ LET uses == AnthropicToolUseIds(M[i])
                   res == M[i + 1].content.array
               IN  /\ Len(res) = Len(uses)
                   /\ \A k \in 1 .. Len(res) :
                        res[k].type = "tool_result" /\ res[k].tool_use_id = uses[k]
    /\ \A j \in 1 .. Len(M) :
        IsAnthropicToolResults(M[j]) =>
            /\ j > 1
            /\ M[j - 1].role = "assistant"
            /\ AnthropicToolUseIds(M[j - 1]) # <<>>

OpenAIToolCalls(m) == IF "tool_calls" \in DOMAIN m THEN m.tool_calls ELSE <<>>

OpenAIPaired(M) ==
    /\ \A i \in 1 .. Len(M) :
        (M[i].role = "assistant" /\ OpenAIToolCalls(M[i]) # <<>>) =>
            LET calls == OpenAIToolCalls(M[i])
            IN  /\ i + Len(calls) <= Len(M)
                /\ \A k \in 1 .. Len(calls) :
                    /\ M[i + k].role = "tool"
                    /\ M[i + k].tool_call_id = calls[k].id
                /\ i + Len(calls) < Len(M) => M[i + Len(calls) + 1].role # "tool"
    /\ \A j \in 1 .. Len(M) :
        M[j].role = "tool" =>
            \E i \in 1 .. j - 1 :
                /\ M[i].role = "assistant"
                /\ j - i <= Len(OpenAIToolCalls(M[i]))

\* C3: in every request body either adapter builds, each assistant message that
\* carries tool uses is immediately followed by exactly one tool result per tool
\* use, with the same ids in the same order (Anthropic: one user message listing
\* them; OpenAI: one tool message per call), and every tool result belongs to
\* such a group.
C3_ToolResultsPaired ==
    /\ ser_body.provider = "anthropic" => AnthropicPaired(ser_body.messages)
    /\ ser_body.provider = "openai" => OpenAIPaired(ser_body.messages)

\* a body with a turn of two tool uses with different ids, followed by a later turn
C3_Witness ==
    /\ ser_body.provider \in {"anthropic", "openai"}
    /\ \E e \in 1 .. Len(ser_exchanges) :
        \E r \in 1 .. Len(ser_exchanges[e].response) :
            LET tus == ser_exchanges[e].response[r].tool_uses
            IN  /\ Len(tus) = 2
                /\ tus[1].id # tus[2].id
                /\ ~tus[2].output.present
                /\ r < Len(ser_exchanges[e].response)


RECURSIVE Flatten(_)
Flatten(seqs) == IF seqs = <<>> THEN <<>> ELSE Head(seqs) \o Flatten(Tail(seqs))

\* the tool uses of the serialized conversation, in order
SerAllToolUses ==
    Flatten([e \in 1 .. Len(ser_exchanges) |->
        Flatten([r \in 1 .. Len(ser_exchanges[e].response) |->
            ser_exchanges[e].response[r].tool_uses])])

\* the tool results of a request body, in order
BodyToolResults(body) ==
    LET M == body.messages
    IN  IF body.provider = "anthropic"
        THEN Flatten([i \in 1 .. Len(M) |->
                IF IsAnthropicToolResults(M[i]) THEN M[i].content.array ELSE <<>>])
        ELSE Flatten([i \in 1 .. Len(M) |->
                IF M[i].role = "tool" THEN <<M[i]>> ELSE <<>>])

ResultId(res) ==
    IF "tool_use_id" \in DOMAIN res THEN res.tool_use_id ELSE res.tool_call_id

\* the text a tool result must carry for this tool use
ExpectedContent(tu) == IF tu.output.present THEN tu.output.text ELSE CancelledText
\* the flag a tool result must carry for this tool use
ExpectedIsError(tu) == IF tu.output.present THEN tu.output.is_error ELSE TRUE

\* C18 as stated: in both the Anthropic and the OpenAI request body, the tool
\* result serialized for a ToolUse carries the output's text and its is_error
\* flag, and a ToolUse whose output is absent is serialized with content
\* "Operation cancelled by user" and is_error = true.
C18_ToolResultsCarryTextAndFlag ==
    ser_body.provider \in {"anthropic", "openai"} =>
        LET res == BodyToolResults(ser_body)
            tus == SerAllToolUses
        IN  /\ Len(res) = Len(tus)
            /\ \A i \in 1 .. Len(res) :
                /\ ResultId(res[i]) = tus[i].id
                /\ res[i].content = ExpectedContent(tus[i])
                /\ "is_error" \in DOMAIN res[i]
                /\ res[i].is_error = ExpectedIsError(tus[i])

\* C18 amended: in both request bodies the tool result serialized for a ToolUse
\* carries the output's text, or "Operation cancelled by user" when the output
\* is absent; the Anthropic tool_result also carries the is_error flag, true
\* when the output is absent, and the OpenAI tool message has no is_error
\* member at all.
C18_ToolResultsCarryText ==
    ser_body.provider \in {"anthropic", "openai"} =>
        LET res == BodyToolResults(ser_body)
            tus == SerAllToolUses
        IN  /\ Len(res) = Len(tus)
            /\ \A i \in 1 .. Len(res) :
                /\ ResultId(res[i]) = tus[i].id
                /\ res[i].content = ExpectedContent(tus[i])
                /\ ser_body.provider = "anthropic" =>
                        /\ "is_error" \in DOMAIN res[i]
                        /\ res[i].is_error = ExpectedIsError(tus[i])
                /\ ser_body.provider = "openai" =>
                        DOMAIN res[i] = {"role", "tool_call_id", "content"}

\* an Anthropic body for a conversation with a failed tool use followed by one
\* whose output is absent
C18_Witness ==
    /\ ser_body.provider = "anthropic"
    /\ Len(SerAllToolUses) = 2
    /\ SerAllToolUses[1].output = Output("bad", TRUE)
    /\ ~SerAllToolUses[2].output.present
    /\ Len(BodyToolResults(ser_body)) = 2

\* the response entries of the serialized conversation, in order
SerAllResponses ==
    Flatten([e \in 1 .. Len(ser_exchanges) |-> ser_exchanges[e].response])

IsEmptyResponse(r) == r.message = <<>> /\ r.tool_uses = <<>>

\* the assistant messages of a request body, in order
BodyAssistantMessages(body) ==
    Flatten([i \in 1 .. Len(body.messages) |->
        IF body.messages[i].role = "assistant" THEN <<body.messages[i]>> ELSE <<>>])

\* an assistant message that carries neither text nor tool uses
IsEmptyAssistantMessage(provider, m) ==
    IF provider = "anthropic" THEN m.content.array = <<>>
    ELSE m.content = <<>> /\ OpenAIToolCalls(m) = <<>>

\* C19: no request body built by either adapter contains an assistant message
\* for a response entry whose message is empty and whose tool_uses is empty:
\* the body has one assistant message per other entry and none that is empty.
C19_EmptyTurnsSkipped ==
    ser_body.provider \in {"anthropic", "openai"} =>
        LET assistant == BodyAssistantMessages(ser_body)
            kept == {i \in 1 .. Len(SerAllResponses) : ~IsEmptyResponse(SerAllResponses[i])}
        IN  /\ Len(assistant) = Cardinality(kept)
            /\ \A i \in 1 .. Len(assistant) : ~IsEmptyAssistantMessage(ser_body.provider, assistant[i])

----------------------------------------------------------------------------
(* client.rs: call_view *)

\* the longest view_range list the model sends
MaxRangeLen == 3
\* the entries of a view_range list lie in -MaxEntry .. MaxEntry
MaxEntry == 2

\* a u32 as its two 16-bit halves (the checker's integers end below 2^32)
Half == 65536
U32(n) == [hi |-> n \div Half, lo |-> n % Half]

\* `x as u32` for an i32 x: two's complement, no check. A negative x has the
\* bits of the complement of -x - 1, which is 2^32 + x
as_u32(x) ==
    IF x >= 0 THEN U32(x)
    ELSE [hi |-> Half - 1 - ((-x - 1) \div Half), lo |-> Half - 1 - ((-x - 1) % Half)]

NoViewRange == [present |-> FALSE, list |-> <<>>]
SomeViewRange(list) == [present |-> TRUE, list |-> list]

\* Option<Vec<i32>> as serde delivers it: absent, or a list of any length
RECURSIVE ListsOfLen(_)
ListsOfLen(n) ==
    IF n = 0 THEN {<<>>}
    ELSE {Append(l, x) : l \in ListsOfLen(n - 1), x \in -MaxEntry .. MaxEntry}
ViewRangeInputs ==
    {NoViewRange} \cup {SomeViewRange(l) : l \in UNION {ListsOfLen(n) : n \in 0 .. MaxRangeLen}}

\* the proto's ViewRange { start: u32, end: Option<u32> }; has_end = FALSE is None
NoViewRequest == [has_range |-> FALSE, start |-> U32(0), has_end |-> FALSE, end |-> U32(0)]
ViewRequestOf(start, has_end, end) ==
    [has_range |-> TRUE, start |-> start, has_end |-> has_end, end |-> end]

ViewSent(arg, req) ==
    [called |-> TRUE, arg |-> arg, sent |-> TRUE, request |-> req, err |-> ""]
ViewBailed(arg, err) ==
    [called |-> TRUE, arg |-> arg, sent |-> FALSE, request |-> NoViewRequest, err |-> err]
NoViewCall ==
    [called |-> FALSE, arg |-> NoViewRange, sent |-> FALSE, request |-> NoViewRequest, err |-> ""]

\* async fn call_view, up to the RPC: the match on the slice
call_view(view_range) ==
    LET l == view_range.list
    IN  IF ~view_range.present THEN ViewSent(view_range, NoViewRequest)
        ELSE IF Len(l) = 2 /\ l[2] = -1 /\ l[1] > 0
        THEN ViewSent(view_range, ViewRequestOf(as_u32(l[1]), FALSE, U32(0)))
        ELSE IF Len(l) = 2 /\ (l[1] > 0 \/ l[2] > 0)
        THEN ViewSent(view_range, ViewRequestOf(as_u32(l[1]), TRUE, as_u32(l[2])))
        ELSE ViewBailed(view_range, "view_range must have two positive entries")

InitClient == view_call = NoViewCall

\* the model calls text_editor's view with some view_range
CallView ==
    /\ \E view_range \in ViewRangeInputs : view_call' = call_view(view_range)
    /\ UNCHANGED nonClientVars

IdleClient == InitClient

----------------------------------------------------------------------------
(* Claims about call_view *)

\* C31: call_view sends a View request only if view_range is absent or is a
\* list [start, end] with start > 0 and end > 0 or end = -1; any other list
\* is rejected with "view_range must have two positive entries" before the
\* RPC, so no negative entry is converted to u32 and sent.
C31_OnlyPositiveRangesSent ==
    view_call.called =>
        LET l == view_call.arg.list
            valid == \/ ~view_call.arg.present
                     \/ Len(l) = 2 /\ l[1] > 0 /\ (l[2] > 0 \/ l[2] = -1)
        IN  /\ view_call.sent <=> valid
            /\ ~view_call.sent => view_call.err = "view_range must have two positive entries"
            /\ (view_call.sent /\ view_call.request.has_range) =>
                    /\ view_call.request.start = U32(l[1])
                    /\ view_call.request.has_end => view_call.request.end = U32(l[2])

\* what the match does accept: a two-element list one of whose entries is positive
SentIffSomePositive ==
    view_call.called =>
        LET l == view_call.arg.list
        IN  view_call.sent <=>
                (~view_call.arg.present \/ (Len(l) = 2 /\ (l[1] > 0 \/ l[2] > 0)))

\* view_range = [-1, 2] was sent as start = 4294967295 (0xFFFF 0xFFFF), end = 2
NegativeStartSent ==
    /\ view_call.sent /\ view_call.request.has_range
    /\ view_call.arg.list = <<-1, 2>>
    /\ view_call.request.start = [hi |-> 65535, lo |-> 65535]
    /\ view_call.request.end = U32(2)

----------------------------------------------------------------------------
(* client.rs: the triage of a tool call's result *)

\* what the awaited tool call yields before call_tool's match: the tool's
\* output, a tonic::Status, a tonic::transport::Error, or another anyhow error
\* raised on the client (bad input, unknown command)
RpcOk(text) == [kind |-> "ok", code |-> "Ok", text |-> text]
RpcStatus(code, message) == [kind |-> "status", code |-> code, text |-> message]
RpcTransport == [kind |-> "transport", code |-> "", text |-> "connect"]
RpcClientError == [kind |-> "client", code |-> "", text |-> "input"]

\* server.rs: a failing RunBash is reported as Status::internal, a failing
\* editor RPC through to_status as Status::unknown; the channel may also report
\* Unavailable or fail to connect
ServerReplies(name) ==
    IF name = "bash"
    THEN {RpcOk("out"), RpcStatus("Internal", "pty"), RpcTransport}
    ELSE {RpcOk("out"), RpcStatus("Unknown", "bad"), RpcStatus("Unavailable", "down"),
          RpcClientError}

\* Ok((String, bool)) and Err of call_tool
Shown(text, is_error) == [escalate |-> FALSE, output |-> Output(text, is_error)]
Escalated == [escalate |-> TRUE, output |-> NoOutput]

\* format!("{error:?}")
DebugFmt(text) == "Error: " \o text

\* a faulty variant of call_tool that shows every failing status to the model
call_tool_shows_all(result) ==
    IF result.kind = "ok" THEN Shown(result.text, FALSE)
    ELSE IF result.kind = "status" THEN Shown(result.text, TRUE)
    ELSE IF result.kind = "transport" THEN Escalated
    ELSE Shown(DebugFmt(result.text), TRUE)

\* a faulty variant of call_tool that escalates every failing status
call_tool_escalates_all(result) ==
    IF result.kind = "ok" THEN Shown(result.text, FALSE)
    ELSE IF result.kind = "status" THEN Escalated
    ELSE IF result.kind = "transport" THEN Escalated
    ELSE Shown(DebugFmt(result.text), TRUE)

\* pub async fn call_tool: the match on the downcast error
call_tool(result) ==
    IF result.kind = "ok" THEN Shown(result.text, FALSE)
    ELSE IF result.kind = "status" /\ result.code = "Unknown" THEN Shown(result.text, TRUE)
    ELSE IF result.kind = "status" THEN Escalated
    ELSE IF result.kind = "transport" THEN Escalated
    ELSE Shown(DebugFmt(result.text), TRUE)

----------------------------------------------------------------------------
(* main.rs: run_exchange and the prompt loop *)

\* prompts read in one behaviour
MaxPrompts == 2
\* provider requests sent in one behaviour
MaxTurns == 3
\* tool uses the provider emits in one behaviour
MaxToolUses == 2
\* SIGINTs in one behaviour
MaxSigints == 2

NoResponse == Response(<<>>, <<>>)
NoExchange == Exchange(0, <<>>)
NoEvent == [act |-> "none", id |-> 0, result |-> RpcOk(""), thenCancelled |-> FALSE]
Event(act, id, result, thenCancelled) ==
    [act |-> act, id |-> id, result |-> result, thenCancelled |-> thenCancelled]

InProgress == pc \in {"stream", "tool"}

NoSigint == [pending |-> "none", woke |-> "none"]

\* the tool uses a provider turn can carry: fresh ids, either tool, no output yet
RECURSIVE NewToolUses(_, _)
NewToolUses(first, k) ==
    IF k = 0 THEN {<<>>}
    ELSE {<<ToolUse(name, first, JEmptyObj, NoOutput)>> \o rest :
            name \in {"bash", "text_editor"}, rest \in NewToolUses(first + 1, k - 1)}

\* a faulty variant of store_output: the tool's output is not stored
store_output_skipped(resp, i, output) == resp

\* tool_use.output = ... (the assignment in the for loop)
store_output(resp, i, output) == [resp EXCEPT !.tool_uses[i].output = output]

\* a faulty variant of last_tool: the for loop ends after its first iteration
last_tool_is_first(resp, i) == TRUE

\* the for loop over response.1 has no further element after index i
last_tool(resp, i) == i = Len(resp.tool_uses)

\* exchange.response.push(response)
push_response(ex, resp) == [ex EXCEPT !.response = Append(@, resp)]

\* a faulty variant of after_error: the error is printed and the loop goes on
after_error_continues(at) == "prompt"

\* `exchange?` in main's select!: an Err of run_exchange is returned by main
after_error(at) == "failed"

\* a faulty variant of cancelled_exchanges: the partial exchange is kept
cancelled_exchanges_kept(all, ex) == Append(all, ex)

\* `continue` in the select!: the conversation after a cancelled exchange
cancelled_exchanges(all, ex) == all

InitAgent ==
    /\ pc = "prompt"
    /\ exchanges = <<>>
    /\ exchange = NoExchange
    /\ response = NoResponse
    /\ toolIdx = 0
    /\ notified = FALSE
    /\ sigint = NoSigint
    /\ request = NoBody
    /\ requestPrompt = 0
    /\ ids = [prompts |-> 0, turns |-> 0, tools |-> 0, sigints |-> 0]
    /\ toolLog = <<>>
    /\ rpcLog = <<>>
    /\ dropped = {}
    /\ event = NoEvent

\* main is back at common::input: run_exchange's locals are gone
AtPrompt ==
    /\ pc' = "prompt"
    /\ exchange' = NoExchange
    /\ response' = NoResponse
    /\ toolIdx' = 0
    /\ notified' = FALSE
    /\ sigint' = [sigint EXCEPT !.woke = "none"]
    /\ toolLog' = <<>>

\* the ids of the tool uses in a sequence of response entries
RECURSIVE ToolIdsOf(_)
ToolIdsOf(resps) ==
    IF resps = <<>> THEN {}
    ELSE {Head(resps).tool_uses[i].id : i \in 1 .. Len(Head(resps).tool_uses)}
         \cup ToolIdsOf(Tail(resps))

\* the select! takes its cancel branch: `continue`. resp is the turn that was
\* in hand when the exchange was dropped.
Drop(resp) ==
    /\ AtPrompt
    /\ exchanges' = cancelled_exchanges(exchanges, exchange)
    /\ dropped' = dropped \cup
            {[prompt |-> exchange.prompt,
              tools |-> ToolIdsOf(Append(exchange.response, resp))]}

\* send_request(exchanges, &ex): the body is built and the request goes out
Send(ex) ==
    /\ request' = anthropic_build_request_body(exchanges, ex)
    /\ requestPrompt' = ex.prompt

\* common::input returns a line; the select! starts and run_exchange runs up to
\* its first await, inside send_request
ReadPrompt ==
    /\ pc = "prompt"
    /\ ids.prompts < MaxPrompts /\ ids.turns < MaxTurns
    /\ LET ex == Exchange(ids.prompts + 1, <<>>)
       IN  /\ exchange' = ex
           /\ Send(ex)
    /\ pc' = "stream"
    /\ ids' = [ids EXCEPT !.prompts = @ + 1, !.turns = @ + 1]
    /\ notified' = FALSE
    /\ event' = Event("prompt", ids.prompts + 1, RpcOk(""), FALSE)
    /\ UNCHANGED <<exchanges, response, toolIdx, sigint, toolLog, rpcLog, dropped,
                   nonAgentVars>>

\* common::input returns None: the loop breaks and main returns Ok
ReadEOF ==
    /\ pc = "prompt"
    /\ pc' = "exited"
    /\ event' = Event("eof", 0, RpcOk(""), FALSE)
    /\ UNCHANGED <<exchanges, exchange, response, toolIdx, notified, sigint, request,
                   requestPrompt, ids, toolLog, rpcLog, dropped, nonAgentVars>>

\* cancel.notify_waiters(): the Notified futures that exist are woken; none
\* exists while main is not inside the select!, and no permit is stored
notify_waiters(woken, in_select) == woken \/ in_select

\* the process receives SIGINT: tokio's signal driver marks ctrl_c() ready.
\* trigger_cancel is a task of its own and has not run yet; a signal raised
\* while one is still pending is coalesced with it
Sigint ==
    /\ ids.sigints < MaxSigints
    /\ pc \notin {"exited", "failed"}
    /\ ids' = [ids EXCEPT !.sigints = @ + 1]
    /\ sigint' = [sigint EXCEPT !.pending =
                    IF @ # "none" THEN @
                    ELSE IF InProgress THEN "exchange" ELSE "prompt"]
    /\ UNCHANGED <<pc, exchanges, exchange, response, toolIdx, notified, request,
                   requestPrompt, toolLog, rpcLog, dropped, event, nonAgentVars>>

\* trigger_cancel is polled: ctrl_c().await returns and notify_waiters is called
TriggerCancel ==
    /\ sigint.pending # "none"
    /\ notified' = notify_waiters(notified, InProgress)
    /\ sigint' = [pending |-> "none",
                  woke |-> IF notified' /\ ~notified THEN sigint.pending ELSE sigint.woke]
    /\ UNCHANGED <<pc, exchanges, exchange, response, toolIdx, request, requestPrompt,
                   ids, toolLog, rpcLog, dropped, event, nonAgentVars>>

\* the select! polls cancel.notified() first and finds it ready
Cancel ==
    /\ InProgress /\ notified
    /\ Drop(response)
    /\ event' = Event("cancel", exchange.prompt, RpcOk(""), FALSE)
    /\ UNCHANGED <<request, requestPrompt, ids, rpcLog, nonAgentVars>>

\* stream_response returns (message, tool_uses). Without tool uses the while
\* loop is skipped, the response is pushed and main appends the exchange. With
\* tool uses the for loop issues the first tool's RPC and awaits it; if the
\* Notified future is ready by then, the same poll of the select! takes the
\* cancel branch.
StreamDone ==
    /\ pc = "stream"
    /\ \E message \in {<<>>, <<exchange.prompt>>},
          k \in 0 .. (IF ids.turns < MaxTurns THEN MaxToolUses - ids.tools ELSE 0) :
        \E tool_uses \in NewToolUses(ids.tools + 1, k) :
            LET resp == Response(message, tool_uses)
            IN  IF tool_uses = <<>>
                THEN /\ AtPrompt
                     /\ exchanges' = Append(exchanges, push_response(exchange, resp))
                     /\ event' = Event("completed", exchange.prompt, RpcOk(""), FALSE)
                     /\ UNCHANGED <<ids, dropped>>
                ELSE /\ ids' = [ids EXCEPT !.tools = @ + k]
                     /\ event' = Event("stream", ids.turns, RpcOk(""), notified)
                     /\ IF notified
                        THEN Drop(resp)
                        ELSE /\ pc' = "tool"
                             /\ response' = resp
                             /\ toolIdx' = 1
                             /\ toolLog' = <<tool_uses[1].id>>
                             /\ UNCHANGED <<exchanges, exchange, notified, sigint,
                                            dropped>>
    /\ UNCHANGED <<request, requestPrompt, rpcLog, nonAgentVars>>

\* send_request or stream_response returns Err: run_exchange returns it and
\* `exchange?` makes main return it
StreamError ==
    /\ pc = "stream"
    /\ pc' = after_error(pc)
    /\ event' = Event("stream_error", ids.turns, RpcOk(""), FALSE)
    /\ UNCHANGED <<exchanges, exchange, response, toolIdx, notified, sigint, request,
                   requestPrompt, ids, toolLog, rpcLog, dropped, nonAgentVars>>

\* the awaited tool call returns. An escalated error leaves run_exchange and
\* main. Otherwise the output is stored; then either the next tool's RPC is
\* issued, or the turn is pushed and the next request is sent; either way
\* run_exchange is pending again, and a ready Notified future makes the same
\* poll of the select! take the cancel branch.
ToolDone ==
    /\ pc = "tool"
    /\ \E result \in ServerReplies(response.tool_uses[toolIdx].name) :
        LET id == response.tool_uses[toolIdx].id
            triage == call_tool(result)
            stored == store_output(response, toolIdx, triage.output)
            pushed == push_response(exchange, stored)
        IN  /\ rpcLog' = Append(rpcLog, [id |-> id, result |-> result])
            /\ IF triage.escalate
               THEN /\ pc' = after_error(pc)
                    /\ event' = Event("tool", id, result, FALSE)
                    /\ UNCHANGED <<exchanges, exchange, response, toolIdx, notified,
                                   sigint, request, requestPrompt, ids, toolLog,
                                   dropped>>
               ELSE /\ event' = Event("tool", id, result, notified)
                    /\ IF last_tool(stored, toolIdx)
                       THEN /\ Send(pushed)
                            /\ ids' = [ids EXCEPT !.turns = @ + 1]
                            /\ IF notified
                               THEN Drop(stored)
                               ELSE /\ pc' = "stream"
                                    /\ exchange' = pushed
                                    /\ response' = NoResponse
                                    /\ toolIdx' = 0
                                    /\ toolLog' = <<>>
                                    /\ UNCHANGED <<exchanges, notified, sigint, dropped>>
                       ELSE /\ IF notified
                               THEN Drop(stored)
                               ELSE /\ response' = stored
                                    /\ toolIdx' = toolIdx + 1
                                    /\ toolLog' = Append(toolLog, stored.tool_uses[toolIdx + 1].id)
                                    /\ UNCHANGED <<pc, exchanges, exchange, notified,
                                                   sigint, dropped>>
                            /\ UNCHANGED <<request, requestPrompt, ids>>
    /\ UNCHANGED nonAgentVars

NextAgent ==
    \/ ReadPrompt \/ ReadEOF \/ Sigint \/ TriggerCancel \/ Cancel
    \/ StreamDone \/ StreamError \/ ToolDone

IdleAgent == InitAgent

----------------------------------------------------------------------------
(* Claims about the agent loop *)

\* main took a step (Sigint is the listener task's step)
MainStep == event' # event

RECURSIVE ToolUsesOf(_)
ToolUsesOf(resps) ==
    IF resps = <<>> THEN {}
    ELSE {Head(resps).tool_uses[i] : i \in 1 .. Len(Head(resps).tool_uses)}
         \cup ToolUsesOf(Tail(resps))

RECURSIVE ToolUsesOfAll(_)
ToolUsesOfAll(all) ==
    IF all = <<>> THEN {} ELSE ToolUsesOf(Head(all).response) \cup ToolUsesOfAll(Tail(all))

\* every ToolUse the agent holds: conversation, exchange in progress, turn in hand
HeldToolUses ==
    ToolUsesOfAll(exchanges) \cup ToolUsesOf(<<response>>) \cup ToolUsesOf(exchange.response)

\* the tool uses of the turns that were pushed: conversation and exchange in progress
PushedToolUses == ToolUsesOfAll(exchanges) \cup ToolUsesOf(exchange.response)

Prompts(all) == {all[i].prompt : i \in 1 .. Len(all)}

\* the content blocks of the request's messages
RequestBlocks ==
    UNION {{request.messages[i].content.array[j] :
                j \in 1 .. Len(request.messages[i].content.array)} :
            i \in {k \in 1 .. Len(request.messages) : IsArray(request.messages[k].content)}}

RequestPrompts ==
    {request.messages[i].content.string :
        i \in {k \in 1 .. Len(request.messages) : ~IsArray(request.messages[k].content)}}

ToolResults == {b \in RequestBlocks : b.type = "tool_result"}

RpcEntries == {rpcLog[i] : i \in 1 .. Len(rpcLog)}

\* nothing of a dropped exchange is in the conversation, nor in a request sent
\* by another exchange
NoLeak ==
    \A d \in dropped :
        /\ d.prompt \notin Prompts(exchanges)
        /\ \A u \in ToolUsesOfAll(exchanges) : u.id \notin d.tools
        /\ d.prompt # requestPrompt =>
            /\ d.prompt \notin RequestPrompts
            /\ \A b \in RequestBlocks :
                /\ b.type = "text" => b.text # <<d.prompt>>
                /\ b.type = "tool_use" => b.id \notin d.tools
                /\ b.type = "tool_result" => b.tool_use_id \notin d.tools

\* C4 as stated: once the cancel notification has fired during an exchange,
\* main's next step drops the exchange and is back at the prompt with the
\* conversation as it was; nothing of a dropped exchange is seen later.
C4_CancelAlwaysDrops ==
    /\ [][(InProgress /\ notified /\ MainStep) =>
            (pc' = "prompt" /\ exchanges' = exchanges)]_vars
    /\ []NoLeak

\* C4 amended: once the cancel notification has fired during an exchange, main's
\* next step either drops the exchange (back at the prompt, conversation as it
\* was), or, when run_exchange's result is ready in the poll that sees the
\* notification, ends it with that result: the completed exchange is appended,
\* or the error ends main with the conversation as it was. Nothing of a dropped
\* exchange is in the conversation or in a request sent by a later exchange.
C4_CancelDropsOrLosesRace ==
    /\ [][(InProgress /\ notified /\ MainStep) =>
            \/ /\ pc' = "prompt" /\ exchanges' = exchanges
               /\ exchange.prompt \in {d.prompt : d \in dropped'}
            \/ /\ pc' = "prompt" /\ event'.act = "completed"
               /\ Len(exchanges') = Len(exchanges) + 1
               /\ SubSeq(exchanges', 1, Len(exchanges)) = exchanges
               /\ exchanges'[Len(exchanges')].prompt = exchange.prompt
               /\ exchange.prompt \notin {d.prompt : d \in dropped'}
            \/ /\ pc' = "failed" /\ exchanges' = exchanges]_vars
    /\ []NoLeak

\* an exchange with tool uses was dropped and a later exchange has sent a request
C4_Witness ==
    /\ \E d \in dropped : d.tools # {} /\ d.prompt < requestPrompt
    /\ pc = "stream"
    /\ exchange.prompt = requestPrompt

\* C5: the tool uses of a turn are run one at a time in the order emitted: the
\* RPCs issued so far are those of a prefix of the turn, all but the last of
\* them answered; every pushed turn has all outputs filled, so no request
\* serializes an absent output.
C5_ToolsInOrderBeforeRequest ==
    /\ pc = "tool" =>
        /\ toolIdx \in 1 .. Len(response.tool_uses)
        /\ toolLog = [i \in 1 .. toolIdx |-> response.tool_uses[i].id]
        /\ \A i \in 1 .. Len(response.tool_uses) :
            response.tool_uses[i].output.present <=> i < toolIdx
    /\ \A i, j \in 1 .. Len(rpcLog) : i < j => rpcLog[i].id < rpcLog[j].id
    /\ \A u \in PushedToolUses : u.output.present
    /\ \A b \in ToolResults : b.content # CancelledText
    /\ \A b \in RequestBlocks :
        b.type = "tool_use" => \E r \in ToolResults : r.tool_use_id = b.id

\* a request was sent right after the second tool of a turn was answered
C5_Witness ==
    /\ pc = "stream"
    /\ event.act = "tool"
    /\ LET resps == exchange.response
       IN  /\ resps # <<>>
           /\ Len(resps[Len(resps)].tool_uses) = 2
           /\ Cardinality(ToolResults) = 2

IsUnknown(result) == result.kind = "status" /\ result.code = "Unknown"
IsEscalating(result) ==
    \/ result.kind = "status" /\ result.code # "Unknown"
    \/ result.kind = "transport"

IsCompleted(ex) ==
    /\ Len(ex.response) >= 1
    /\ ex.response[Len(ex.response)].tool_uses = <<>>
    /\ \A i \in 1 .. Len(ex.response) - 1 :
        /\ ex.response[i].tool_uses # <<>>
        /\ \A j \in 1 .. Len(ex.response[i].tool_uses) :
            ex.response[i].tool_uses[j].output.present

\* C22: every exchange appended to the conversation has a non-empty response
\* sequence whose last entry has empty tool_uses and whose every earlier entry
\* has non-empty tool_uses with each output filled; the conversation is only
\* ever changed by appending such a completed exchange at its end.
C22_OnlyCompletedExchanges ==
    /\ [](\A i \in 1 .. Len(exchanges) : IsCompleted(exchanges[i]))
    /\ [][exchanges' # exchanges =>
            /\ Len(exchanges') = Len(exchanges) + 1
            /\ SubSeq(exchanges', 1, Len(exchanges)) = exchanges
            /\ IsCompleted(exchanges'[Len(exchanges')])
            /\ exchanges'[Len(exchanges')].prompt = exchange.prompt]_vars

\* the conversation holds an exchange with a round of two tools and a final
\* turn, appended after an earlier exchange
C22_Witness ==
    /\ Len(exchanges) = 2
    /\ Len(exchanges[2].response) = 2
    /\ Len(exchanges[2].response[1].tool_uses) = 2
    /\ exchanges[2].response[1].tool_uses[2].output.is_error

------------------------------------------------------------\* C30: a SIGINT raised while main awaits the prompt changes nothing: the
\* conversation stays as it is, and no exchange is dropped because of a
\* Notified future that this signal woke, however trigger_cancel and main
\* interleave.
C30_PromptSigintIsNoOp ==
    [][/\ ids'.sigints # ids.sigints => exchanges' = exchanges
       /\ dropped' # dropped => sigint.woke # "prompt"]_vars

\* notify_waiters stores no permit: while main awaits the prompt no Notified
\* future is woken, whatever trigger_cancel did
NotifyAtPromptStoresNoPermit == pc = "prompt" => ~notified

\* the signal was raised at the prompt, main read the next prompt before
\* trigger_cancel ran, and the exchange of that prompt is about to be dropped
PromptSigintCancelsNextExchange ==
    InProgress /\ notified /\ sigint.woke = "prompt"

\* the role the i-th message of an alternating conversation has
AlternatingRole(i) == IF i % 2 = 1 THEN "user" ELSE "assistant"

\* m is the message that carries the results of the turn resp
IsToolResultsOf(m, resp) ==
    /\ m.role = "user"
    /\ IsArray(m.content)
    /\ Len(m.content.array) = Len(resp.tool_uses)
    /\ Len(resp.tool_uses) > 0
    /\ \A i \in 1 .. Len(resp.tool_uses) :
            /\ m.content.array[i].type = "tool_result"
            /\ m.content.array[i].tool_use_id = resp.tool_uses[i].id

\* C29: in every Anthropic request body the agent loop sends, messages starts
\* with a user message, strictly alternates user/assistant, and ends with a
\* user message: the prompt of the exchange, or the tool results of its latest
\* tool round.
C29_MessagesAlternate ==
    request.provider = "anthropic" =>
        LET m == request.messages
            n == Len(m)
        IN  /\ n >= 1
            /\ \A i \in 1 .. n : m[i].role = AlternatingRole(i)
            /\ m[n].role = "user"
            /\ \/ m[n].content = JString(requestPrompt)
               \/ IsArray(m[n].content) /\ m[n].content.array # <<>>
            /\ pc = "stream" =>
                    IF exchange.response = <<>>
                    THEN m[n].content = JString(exchange.prompt)
                    ELSE IsToolResultsOf(m[n], exchange.response[Len(exchange.response)])

\* a request of the second exchange that follows a tool round: the body holds
\* the first exchange, the prompt, the assistant turn and its tool results
C29_Witness ==
    /\ pc = "stream"
    /\ exchanges # <<>>
    /\ exchange.response # <<>>
    /\ Len(request.messages) >= 5
    /\ IsArray(request.messages[Len(request.messages)].content)

\* when stream_response fails, run_exchange and main return the error: no
\* tool of the turn is run and the conversation is the one before the prompt
FailedDecodeLeavesConversation ==
    [][/\ (pc = "stream" /\ pc' = "failed") =>
            /\ exchanges' = exchanges
            /\ Len(exchanges) = exchange.prompt - 1 - Cardinality(dropped)
            /\ rpcLog' = rpcLog /\ toolLog' = toolLog /\ toolLog = <<>>
       /\ pc = "failed" => (exchanges' = exchanges /\ rpcLog' = rpcLog)]_vars

\* main's step was an exchange returning Err: the request or the stream
\* failed, or a tool call's error was escalated
ExchangeReturnedErr ==
    /\ MainStep
    /\ \/ event'.act = "stream_error"
       \/ /\ event'.act = "tool"
          /\ \/ event'.result.kind = "transport"
             \/ event'.result.kind = "status" /\ event'.result.code # "Unknown"

\* C32: an exchange that returns an error ends the agent loop: main returns,
\* no further prompt is read and nothing else happens; a cancelled exchange
\* puts main back at the prompt with the conversation as it was.
C32_ErrorEndsLoop ==
    [][/\ ExchangeReturnedErr => (pc' = "failed" /\ exchanges' = exchanges)
       /\ pc = "failed" =>
            /\ pc' = "failed" /\ ~MainStep
            /\ ids'.prompts = ids.prompts /\ ids'.turns = ids.turns
            /\ exchanges' = exchanges /\ rpcLog' = rpcLog
       /\ dropped' # dropped =>
            /\ pc' = "prompt"
            /\ exchanges' = exchanges
            /\ (ids'.prompts < MaxPrompts /\ ids'.turns < MaxTurns)
                    => (ENABLED ReadPrompt)']_vars

\* the first exchange was cancelled, the loop read the second prompt, and the
\* second exchange ended the loop with an escalated tool error
C32_Witness ==
    /\ pc = "failed"
    /\ dropped # {}
    /\ exchange.prompt = 2
    /\ event.act = "tool"

----------------
(* The interactive shell: server.rs run_bash_tool, echo_pty, main *)

\* RunBash requests in one behaviour
MaxCalls == 2
\* lines in one request's input
MaxLines == 1
\* chunks of output one command writes
MaxChunks == 1

\* tonic runs the handlers of concurrent requests concurrently
Handlers == {1, 2}

\* The ioctl is not part of this repository. Its three possible behaviours:
\*   "edge"        returns when a task next blocks in read on the slave
\*   "level"       returns as soon as the reader of the slave is blocked in read
\*   "unsupported" the kernel does not know the request: it fails at once
IoctlBehaviours == {"edge", "level", "unsupported"}

Blocked == [state |-> "blocked", cmd |-> 0]
Running(cmd) == [state |-> "running", cmd |-> cmd]

NoReturn == [handler |-> 0, call |-> 0, ok |-> FALSE, output |-> <<>>, waiting |-> <<>>]

InBody(h) == hpc[h] \in {"send", "select", "sleep", "poll"}

\* a faulty variant of can_lock: the first in line gets the lock while it is held
can_lock_unguarded(m, queue, h) == queue # <<>> /\ Head(queue) = h

\* Mutex::lock resolves for the first in line once the guard is dropped
can_lock(m, queue, h) == m = 0 /\ queue # <<>> /\ Head(queue) = h

InitBash ==
    /\ hpc = [h \in Handlers |-> "idle"]
    /\ mutex = 0
    /\ waiters = <<>>
    /\ todo = [h \in Handlers |-> 0]
    /\ callOf = [h \in Handlers |-> 0]
    /\ nCalls = 0
    /\ handle = "none"
    /\ input_chan = <<>>
    /\ pty_in = <<>>
    /\ shell = Blocked
    /\ pty_out = <<>>
    /\ output_chan = <<>>
    /\ bash_output = [h \in Handlers |-> <<>>]
    /\ bash_last = NoReturn
    /\ echo_alive = TRUE
    /\ server_up = TRUE
    /\ t_ioc_read_invoc \in IoctlBehaviours

\* the handler returns: the MutexGuard is dropped and the probe, if any, detached
Return(h, ok, out) ==
    /\ hpc' = [hpc EXCEPT ![h] = "idle"]
    /\ todo' = [todo EXCEPT ![h] = 0]
    /\ callOf' = [callOf EXCEPT ![h] = 0]
    /\ mutex' = 0
    /\ handle' = "none"
    /\ bash_output' = [bash_output EXCEPT ![h] = <<>>]
    /\ bash_last' = [handler |-> h, call |-> callOf[h], ok |-> ok, output |-> out,
                     waiting |-> waiters]

\* a RunBash request arrives; its handler starts `self.output_recv.lock().await`
Call(h) ==
    /\ server_up /\ hpc[h] = "idle" /\ nCalls < MaxCalls
    /\ \E n \in 1 .. MaxLines : todo' = [todo EXCEPT ![h] = n - 1]
    /\ nCalls' = nCalls + 1
    /\ callOf' = [callOf EXCEPT ![h] = nCalls + 1]
    /\ hpc' = [hpc EXCEPT ![h] = "lock"]
    /\ waiters' = Append(waiters, h)
    /\ UNCHANGED <<mutex, handle, input_chan, pty_in, shell, pty_out, output_chan,
                   bash_output, bash_last, echo_alive, server_up, t_ioc_read_invoc>>
    /\ UNCHANGED nonBashVars

Acquire(h) ==
    /\ server_up /\ hpc[h] = "lock"
    /\ can_lock(mutex, waiters, h)
    /\ mutex' = h
    /\ waiters' = Tail(waiters)
    /\ hpc' = [hpc EXCEPT ![h] = "send"]
    /\ bash_output' = [bash_output EXCEPT ![h] = <<>>]
    /\ UNCHANGED <<todo, callOf, nCalls, handle, input_chan, pty_in, shell, pty_out,
                   output_chan, bash_last, echo_alive, server_up, t_ioc_read_invoc>>
    /\ UNCHANGED nonBashVars

\* spawn_blocking(ioctl), then input_sender.send(line): no await in between
SpawnAndSend(h) ==
    /\ server_up /\ hpc[h] = "send"
    /\ IF echo_alive
       THEN /\ handle' = "queued"
            /\ input_chan' = Append(input_chan, callOf[h])
            /\ hpc' = [hpc EXCEPT ![h] = "select"]
            /\ UNCHANGED <<mutex, bash_output, bash_last>>
            /\ UNCHANGED <<todo, callOf>>
       ELSE /\ Return(h, FALSE, <<>>)
            /\ UNCHANGED input_chan
    /\ UNCHANGED <<waiters, nCalls, pty_in, shell, pty_out, output_chan,
                   echo_alive, server_up, t_ioc_read_invoc>>
    /\ UNCHANGED nonBashVars

\* one round of the select! loop
Select(h) ==
    /\ server_up /\ hpc[h] = "select"
    /\ \/ /\ handle = "ok"
          /\ handle' = "none"
          /\ hpc' = [hpc EXCEPT ![h] = "sleep"]
          /\ UNCHANGED <<mutex, bash_output, bash_last, output_chan, todo, callOf>>
       \/ /\ handle = "err"
          /\ Return(h, FALSE, <<>>)
          /\ UNCHANGED output_chan
       \/ /\ output_chan # <<>>
          /\ bash_output' = [bash_output EXCEPT
                                ![h] = Append(bash_output[h], Head(output_chan))]
          /\ output_chan' = Tail(output_chan)
          /\ UNCHANGED <<hpc, mutex, handle, bash_last, todo, callOf>>
    /\ UNCHANGED <<waiters, nCalls, input_chan, pty_in, shell, pty_out,
                   echo_alive, server_up, t_ioc_read_invoc>>
    /\ UNCHANGED nonBashVars

\* the 50 ms sleep is over: next line, or out of the for loop
Sleep(h) ==
    /\ server_up /\ hpc[h] = "sleep"
    /\ IF todo[h] > 0
       THEN /\ todo' = [todo EXCEPT ![h] = todo[h] - 1]
            /\ hpc' = [hpc EXCEPT ![h] = "send"]
       ELSE /\ hpc' = [hpc EXCEPT ![h] = "poll"]
            /\ UNCHANGED todo
    /\ UNCHANGED <<mutex, waiters, callOf, nCalls, handle, input_chan, pty_in, shell,
                   pty_out, output_chan, bash_output, bash_last, echo_alive, server_up,
                   t_ioc_read_invoc>>
    /\ UNCHANGED nonBashVars

\* "read any leftover data": one poll of recv(), then Ok
Poll(h) ==
    /\ server_up /\ hpc[h] = "poll"
    /\ IF output_chan # <<>>
       THEN /\ Return(h, TRUE, Append(bash_output[h], Head(output_chan)))
            /\ output_chan' = Tail(output_chan)
       ELSE /\ Return(h, TRUE, bash_output[h])
            /\ UNCHANGED output_chan
    /\ UNCHANGED <<waiters, nCalls, input_chan, pty_in, shell, pty_out,
                   echo_alive, server_up, t_ioc_read_invoc>>
    /\ UNCHANGED nonBashVars

\* the blocking-pool thread gets to run the closure: it enters the ioctl
ProbeStart ==
    /\ server_up /\ handle = "queued"
    /\ handle' = CASE t_ioc_read_invoc = "unsupported" -> "err"
                   [] t_ioc_read_invoc = "level" /\ shell.state = "blocked" -> "ok"
                   [] OTHER -> "waiting"
    /\ UNCHANGED <<hpc, mutex, waiters, todo, callOf, nCalls, input_chan, pty_in, shell,
                   pty_out, output_chan, bash_output, bash_last, echo_alive, server_up,
                   t_ioc_read_invoc>>
    /\ UNCHANGED nonBashVars

\* echo_pty's input_recv branch: write the line to the master, echo it
EchoInput ==
    /\ server_up /\ echo_alive /\ input_chan # <<>>
    /\ pty_in' = Append(pty_in, Head(input_chan))
    /\ output_chan' = Append(output_chan, Head(input_chan))
    /\ input_chan' = Tail(input_chan)
    /\ UNCHANGED <<hpc, mutex, waiters, todo, callOf, nCalls, handle, shell, pty_out,
                   bash_output, bash_last, echo_alive, server_up, t_ioc_read_invoc>>
    /\ UNCHANGED nonBashVars

\* echo_pty's read_end branch
EchoOutput ==
    /\ server_up /\ echo_alive /\ pty_out # <<>>
    /\ output_chan' = Append(output_chan, Head(pty_out))
    /\ pty_out' = Tail(pty_out)
    /\ UNCHANGED <<hpc, mutex, waiters, todo, callOf, nCalls, handle, input_chan, pty_in,
                   shell, bash_output, bash_last, echo_alive, server_up, t_ioc_read_invoc>>
    /\ UNCHANGED nonBashVars

\* echo_pty returns an error: stdin dropped, or a read or write failed
EchoFail ==
    /\ server_up /\ echo_alive
    /\ echo_alive' = FALSE
    /\ UNCHANGED <<hpc, mutex, waiters, todo, callOf, nCalls, handle, input_chan, pty_in,
                   shell, pty_out, output_chan, bash_output, bash_last, server_up,
                   t_ioc_read_invoc>>
    /\ UNCHANGED nonBashVars

\* main's select! sees the echo task's handle resolve and bails
ServerExit ==
    /\ server_up /\ ~echo_alive
    /\ server_up' = FALSE
    /\ UNCHANGED <<hpc, mutex, waiters, todo, callOf, nCalls, handle, input_chan, pty_in,
                   shell, pty_out, output_chan, bash_output, bash_last, echo_alive,
                   t_ioc_read_invoc>>
    /\ UNCHANGED nonBashVars

\* k copies of the chunk c
Chunks(c, k) == [i \in 1 .. k |-> c]

\* bash reads a line and runs the command, which writes its output
ShellRun ==
    /\ server_up /\ pty_in # <<>>
    /\ shell' = Running(Head(pty_in))
    /\ pty_in' = Tail(pty_in)
    /\ \E k \in 0 .. MaxChunks : pty_out' = pty_out \o Chunks(Head(pty_in), k)
    /\ UNCHANGED <<hpc, mutex, waiters, todo, callOf, nCalls, handle, input_chan,
                   output_chan, bash_output, bash_last, echo_alive, server_up,
                   t_ioc_read_invoc>>
    /\ UNCHANGED nonBashVars

\* the command is done and bash blocks in read: a probe inside the ioctl returns
ShellBlock ==
    /\ server_up /\ shell.state = "running" /\ pty_in = <<>>
    /\ shell' = Blocked
    /\ handle' = IF handle = "waiting" THEN "ok" ELSE handle
    /\ UNCHANGED <<hpc, mutex, waiters, todo, callOf, nCalls, input_chan, pty_in, pty_out,
                   output_chan, bash_output, bash_last, echo_alive, server_up,
                   t_ioc_read_invoc>>
    /\ UNCHANGED nonBashVars

NextBash ==
    \/ \E h \in Handlers : Call(h)
    \/ \E h \in Handlers : Acquire(h)
    \/ \E h \in Handlers : SpawnAndSend(h)
    \/ \E h \in Handlers : Select(h)
    \/ \E h \in Handlers : Sleep(h)
    \/ \E h \in Handlers : Poll(h)
    \/ ProbeStart
    \/ EchoInput \/ EchoOutput \/ EchoFail \/ ServerExit
    \/ ShellRun \/ ShellBlock

\* every task that can run does run: the runtime's worker and blocking threads,
\* the echo task and bash are scheduled; a command finishes
FairBash ==
    /\ \A h \in Handlers :
        /\ WF_vars(Acquire(h)) /\ WF_vars(SpawnAndSend(h)) /\ WF_vars(Select(h))
        /\ WF_vars(Sleep(h)) /\ WF_vars(Poll(h))
    /\ WF_vars(ProbeStart)
    /\ WF_vars(EchoInput) /\ WF_vars(EchoOutput) /\ WF_vars(ServerExit)
    /\ WF_vars(ShellRun) /\ WF_vars(ShellBlock)

IdleBash ==
    /\ InitBash
    /\ t_ioc_read_invoc = "edge"

----------------------------------------------------------------------------
(* Claims about the interactive shell *)

\* C8: at most one RunBash handler is inside its body, and it is the holder of
\* the mutex; a handler enters the body only when no handler is in it; a
\* handler that leaves the body, with a response or with an error, leaves the
\* mutex free with the waiting handlers still in line, and the first in line
\* can then take it.
C8_OneRunBashInBody ==
    /\ [](\A h \in Handlers : InBody(h) <=> mutex = h)
    /\ [](\A g, h \in Handlers : (InBody(g) /\ InBody(h)) => g = h)
    /\ [](\A i \in 1 .. Len(waiters) : hpc[waiters[i]] = "lock")
    /\ [][\A h \in Handlers :
            (~InBody(h) /\ InBody(h)') =>
                (mutex = 0 /\ \A g \in Handlers : ~InBody(g))]_vars
    /\ [][\A h \in Handlers :
            (InBody(h) /\ ~InBody(h)') =>
                /\ mutex' = 0 /\ hpc'[h] = "idle"
                /\ bash_last'.handler = h /\ bash_last'.call = callOf[h]
                /\ waiters' = waiters]_vars
    /\ []((server_up /\ mutex = 0 /\ waiters # <<>>) => ENABLED Acquire(Head(waiters)))

\* the second handler waited while the first was in its body, the first returned
\* an error, and the second is in its body now
C8_Witness ==
    /\ bash_last.handler = 1 /\ ~bash_last.ok
    /\ bash_last.waiting = <<2>>
    /\ InBody(2)

\* C9: with every task scheduled and every command finishing, a RunBash call
\* that is in its body eventually returns and releases the mutex, as long as
\* the echo task is running.
C9_RunBashReturns ==
    \A h \in Handlers : (mutex = h) ~> (mutex # h \/ ~echo_alive)

\* the elements of a sequence
Range1(q) == {q[i] : i \in 1 .. Len(q)}

\* a RunBash call returns a response in this step
ReturnsOk == bash_last' # bash_last /\ bash_last'.ok

\* C24: when a RunBash call returns, nothing that the shell wrote for its
\* command, or the echo task for its input, is still on its way to the output
\* channel or in it: the response holds all of it, and the response of a call
\* holds nothing left over from an earlier call. Stated for an ioctl that
\* returns when bash next blocks in read, the behaviour the code relies on.
C24_NoLeftoverOutput ==
    /\ []((t_ioc_read_invoc = "edge" /\ bash_last.ok)
            => \A c \in Range1(bash_last.output) : c = bash_last.call)
    /\ [][(t_ioc_read_invoc = "edge" /\ ReturnsOk)
            => \A c \in Range1(output_chan') \cup Range1(pty_out') :
                    c # bash_last'.call]_vars

\* the part of C24 about the channel alone: at the return of a call the output
\* channel holds no chunk of that call
ChannelDrainedAtReturn ==
    [][(t_ioc_read_invoc = "edge" /\ ReturnsOk)
        => \A c \in Range1(output_chan') : c # bash_last'.call]_vars

\* the part of C24 about the next call: no response holds a chunk of another call
NoChunkOfAnotherCall ==
    (t_ioc_read_invoc = "edge" /\ bash_last.ok)
        => \A c \in Range1(bash_last.output) : c = bash_last.call

----------------------------------------------------------------------------
(* anthropic.rs: decoding the event stream *)

\* tool_use blocks in one stream
MaxBlocks == 2
\* content_block_delta events in one block
MaxDeltas == 3
\* text blocks in one stream
MaxTextBlocks == 1

SP == " "

\* the first position at or after i that holds no space
RECURSIVE skip_ws(_, _)
skip_ws(s, i) == IF i <= Len(s) /\ s[i] = SP THEN skip_ws(s, i + 1) ELSE i

\* the first position at or after i that holds no digit
RECURSIVE digits_end(_, _)
digits_end(s, i) == IF i <= Len(s) /\ s[i] = "1" THEN digits_end(s, i + 1) ELSE i

ParseFail == [ok |-> FALSE, value |-> JNull, next |-> 0]

\* one JSON value starting at or after i, and where it ends
RECURSIVE parse_value(_, _)
parse_value(s, i) ==
    LET j == skip_ws(s, i)
    IN  IF j > Len(s) THEN ParseFail
        ELSE IF s[j] = "1"
        THEN LET e == digits_end(s, j)
             IN  [ok |-> TRUE, value |-> JNumber(SubSeq(s, j, e - 1)), next |-> e]
        ELSE IF s[j] = "{"
        THEN LET m == skip_ws(s, j + 1)
             IN  IF m > Len(s) THEN ParseFail
                 ELSE IF s[m] = "}"
                 THEN [ok |-> TRUE, value |-> JEmptyObj, next |-> m + 1]
                 ELSE IF s[m] = "k"
                 THEN LET r == parse_value(s, m + 1)
                          c == skip_ws(s, r.next)
                      IN  IF r.ok /\ c <= Len(s) /\ s[c] = "}"
                          THEN [ok |-> TRUE, value |-> JObj(r.value), next |-> c + 1]
                          ELSE ParseFail
                 ELSE ParseFail
        ELSE ParseFail

\* serde_json::from_str::<Value>: one value, then nothing but white space
serde_json_from_str(s) ==
    LET r == parse_value(s, 1)
    IN  IF r.ok /\ skip_ws(s, r.next) > Len(s)
        THEN [ok |-> TRUE, value |-> r.value]
        ELSE [ok |-> FALSE, value |-> JNull]

\* the text of a value with white space inside the braces
RECURSIVE json_pretty(_)
json_pretty(v) ==
    IF v.t = "num" THEN json_to_string(v)
    ELSE IF v.fields = <<>> THEN <<"{", SP, "}">>
    ELSE <<"{", SP, "k">> \o json_pretty(v.fields[1]) \o <<"}">>

\* the tool inputs the provider sends, and the texts it may send them as
Values == {JNum, JNumber(<<"1", "1">>), JEmptyObj, JObj(JNum)}
Renderings(v) == {json_to_string(v), json_pretty(v)}
ToolNames == {"bash", "text_editor"}

\* a faulty variant of partial_json_clear: the buffer is left as it is
partial_json_kept(s) == s

\* String::clear
partial_json_clear(s) == <<>>

\* parse_tool_use_content_block_start: ToolUse { name, id, ..Default::default() }
parse_tool_use_content_block_start(name, id) == ToolUse(name, id, JNull, NoOutput)

\* the provider's side: which content block is open, what is left to deliver
\* of the open tool_use block's input, and what has been sent
NoStream ==
    [started |-> FALSE, open |-> "none", rest |-> <<>>, deltas |-> 0, texts |-> 0,
     error |-> FALSE, textAfterTool |-> FALSE]

Block(id, name, value, text) ==
    [id |-> id, name |-> name, value |-> value, text |-> text, closed |-> FALSE]

\* what of the open block's text has been sent
Delivered ==
    LET text == sent_blocks[Len(sent_blocks)].text
    IN  SubSeq(text, 1, Len(text) - Len(stream.rest))

Decoding == dphase \in {"message", "tools"}

InitDecode ==
    /\ dphase = "message"
    /\ dec_message = <<>>
    /\ dec_tool_uses = <<>>
    /\ partial_json = <<>>
    /\ stream = NoStream
    /\ sent_blocks = <<>>

\* message_start (as ping, message_delta): neither loop does anything with it
MessageStart ==
    /\ Decoding /\ ~stream.started
    /\ stream' = [stream EXCEPT !.started = TRUE]
    /\ UNCHANGED <<dphase, dec_message, dec_tool_uses, partial_json, sent_blocks>>
    /\ UNCHANGED nonDecodeVars

\* content_block_start of a text block: nothing in the first loop; the second
\* loop takes every content_block_start for a tool use and finds no name
TextStart ==
    /\ Decoding /\ stream.started /\ stream.open = "none"
    /\ stream.texts < MaxTextBlocks
    /\ IF dphase = "message"
       THEN /\ stream' = [stream EXCEPT !.open = "text", !.deltas = 0, !.texts = @ + 1]
            /\ UNCHANGED <<dphase, partial_json>>
       ELSE /\ stream' = [stream EXCEPT !.open = "text", !.deltas = 0, !.texts = @ + 1,
                                       !.textAfterTool = TRUE]
            /\ partial_json' = partial_json_clear(partial_json)
            /\ dphase' = "failed"
    /\ UNCHANGED <<dec_message, dec_tool_uses, sent_blocks>>
    /\ UNCHANGED nonDecodeVars

\* content_block_delta with delta.text (first loop only: the second has failed
\* on the block's start)
TextDelta ==
    /\ dphase = "message" /\ stream.open = "text" /\ stream.deltas < MaxDeltas
    /\ LET tokens == IF stream.deltas % 2 = 0 THEN <<"a">> ELSE <<"b">>
       IN  dec_message' = dec_message \o tokens
    /\ stream' = [stream EXCEPT !.deltas = @ + 1]
    /\ UNCHANGED <<dphase, dec_tool_uses, partial_json, sent_blocks>>
    /\ UNCHANGED nonDecodeVars

\* content_block_stop of the text block
TextStop ==
    /\ dphase = "message" /\ stream.open = "text"
    /\ stream' = [stream EXCEPT !.open = "none"]
    /\ UNCHANGED <<dphase, dec_message, dec_tool_uses, partial_json, sent_blocks>>
    /\ UNCHANGED nonDecodeVars

\* content_block_start of a tool_use block: the first loop pushes the ToolUse
\* and breaks; the second clears partial_json and pushes
ToolStart ==
    /\ Decoding /\ stream.started /\ stream.open = "none"
    /\ Len(sent_blocks) < MaxBlocks
    /\ \E name \in ToolNames, v \in Values :
        \E text \in Renderings(v) :
            LET id == Len(sent_blocks) + 1
            IN  /\ sent_blocks' = Append(sent_blocks, Block(id, name, v, text))
                /\ stream' = [stream EXCEPT !.open = "tool", !.rest = text, !.deltas = 0]
                /\ dec_tool_uses' =
                        Append(dec_tool_uses, parse_tool_use_content_block_start(name, id))
    /\ IF dphase = "message"
       THEN /\ dphase' = "tools"
            /\ UNCHANGED partial_json
       ELSE /\ partial_json' = partial_json_clear(partial_json)
            /\ UNCHANGED dphase
    /\ UNCHANGED dec_message
    /\ UNCHANGED nonDecodeVars

\* content_block_delta with delta.partial_json: any part of what is left, the
\* last allowed delta carrying all of it
ToolDelta ==
    /\ dphase = "tools" /\ stream.open = "tool" /\ stream.deltas < MaxDeltas
    /\ \E n \in 0 .. Len(stream.rest) :
        /\ stream.deltas + 1 = MaxDeltas => n = Len(stream.rest)
        /\ LET fragment == SubSeq(stream.rest, 1, n)
           IN  /\ partial_json' = partial_json \o fragment
               /\ stream' = [stream EXCEPT
                                !.rest = SubSeq(stream.rest, n + 1, Len(stream.rest)),
                                !.deltas = @ + 1]
    /\ UNCHANGED <<dphase, dec_message, dec_tool_uses, sent_blocks>>
    /\ UNCHANGED nonDecodeVars

\* content_block_stop of a tool_use block whose input has been delivered:
\* the accumulated text is parsed into the last ToolUse
ToolStop ==
    /\ dphase = "tools" /\ stream.open = "tool" /\ stream.rest = <<>>
    /\ stream.deltas > 0
    /\ LET parsed == serde_json_from_str(partial_json)
           b == Len(dec_tool_uses)
       IN  IF parsed.ok
           THEN /\ dec_tool_uses' = [dec_tool_uses EXCEPT ![b].input = parsed.value]
                /\ UNCHANGED dphase
           ELSE /\ dphase' = "failed"
                /\ UNCHANGED dec_tool_uses
    /\ stream' = [stream EXCEPT !.open = "none"]
    /\ sent_blocks' = [sent_blocks EXCEPT ![Len(sent_blocks)].closed = TRUE]
    /\ UNCHANGED <<dec_message, partial_json>>
    /\ UNCHANGED nonDecodeVars

\* message_delta, message_stop, end of the stream: the loop in hand ends, Ok(())
MessageStop ==
    /\ Decoding /\ stream.started /\ stream.open = "none"
    /\ dphase' = "done"
    /\ UNCHANGED <<dec_message, dec_tool_uses, partial_json, stream, sent_blocks>>
    /\ UNCHANGED nonDecodeVars

\* an event of type error, at any point of the stream: both loops bail (on
\* data that is not JSON they fail one line earlier, with another message)
ErrorEvent ==
    /\ Decoding
    /\ dphase' = "failed"
    /\ stream' = [stream EXCEPT !.error = TRUE]
    /\ UNCHANGED <<dec_message, dec_tool_uses, partial_json, sent_blocks>>
    /\ UNCHANGED nonDecodeVars

NextDecode ==
    \/ MessageStart
    \/ TextStart \/ TextDelta \/ TextStop
    \/ ToolStart \/ ToolDelta \/ ToolStop
    \/ MessageStop \/ ErrorEvent

IdleDecode == InitDecode

----------------------------------------------------------------------------
(* Claims about the Anthropic decoder *)

\* C10: while and after the tool_use blocks of a stream are decoded, tool_uses
\* holds one ToolUse per block started, in block order, with the block's id and
\* name; the input of a closed block is the value the block delivered, whatever
\* the fragments were; partial_json holds fragments of the open block only; and
\* decode fails only on an error event or on a text block after a tool_use block.
C10_ToolInputsRoundTrip ==
    /\ dphase \in {"tools", "done"} =>
        /\ Len(dec_tool_uses) = Len(sent_blocks)
        /\ \A i \in 1 .. Len(sent_blocks) :
            /\ dec_tool_uses[i].id = sent_blocks[i].id
            /\ dec_tool_uses[i].name = sent_blocks[i].name
            /\ sent_blocks[i].closed => dec_tool_uses[i].input = sent_blocks[i].value
            /\ ~sent_blocks[i].closed =>
                /\ i = Len(sent_blocks)
                /\ dec_tool_uses[i].input = JNull
                /\ partial_json = Delivered
    /\ dphase = "failed" => (stream.error \/ stream.textAfterTool)

\* the first block's input was decoded; the second block, with another input,
\* is open and part of its text has arrived
C10_Witness ==
    /\ dphase = "tools"
    /\ Len(sent_blocks) = 2
    /\ sent_blocks[1].closed
    /\ sent_blocks[1].text = json_pretty(JObj(JNum))
    /\ dec_tool_uses[1].input = JObj(JNum)
    /\ sent_blocks[2].value = JNumber(<<"1", "1">>)
    /\ partial_json = <<"1">> /\ stream.rest = <<"1">>

----------------------------------------------------------------------------
(* openai.rs: decoding the event stream *)

\* what stream_tool_call does with the function.arguments of a chunk that
\* identifies a tool call: parse_tool_call succeeds, the arguments are not read
identifying_chunk_arguments(args) == <<>>

\* the first chunk: delta.role, delta.content = ""
OpenaiRole ==
    /\ Decoding /\ ~stream.started
    /\ stream' = [stream EXCEPT !.started = TRUE]
    /\ UNCHANGED <<dphase, dec_message, dec_tool_uses, partial_json, sent_blocks>>
    /\ UNCHANGED nonDecodeVars

\* a chunk with delta.content: stream_response_message appends it;
\* stream_tool_call finds no tool_calls[0] and returns Ok(None)
OpenaiContent ==
    /\ Decoding /\ stream.started /\ stream.rest = <<>>
    /\ stream.texts < MaxTextBlocks
    /\ LET tokens == IF stream.texts % 2 = 0 THEN <<"a">> ELSE <<"b">>
       IN  dec_message' = IF dphase = "message" THEN dec_message \o tokens
                          ELSE dec_message
    /\ stream' = [stream EXCEPT !.texts = @ + 1,
                                !.textAfterTool = @ \/ dphase = "tools"]
    /\ UNCHANGED <<dphase, dec_tool_uses, partial_json, sent_blocks>>
    /\ UNCHANGED nonDecodeVars

\* a chunk whose tool_calls[0] has id and function.name, and the first n
\* characters of the arguments: the first loop hands it to stream_tool_calls,
\* which pushes it; the second loop parses what it has into the previous
\* ToolUse, clears partial_json and pushes
OpenaiToolCall ==
    /\ Decoding /\ stream.started /\ stream.rest = <<>>
    /\ Len(sent_blocks) < MaxBlocks
    /\ \E name \in ToolNames, v \in Values :
        \E text \in Renderings(v) :
            \E n \in 0 .. Len(text) :
                LET id == Len(sent_blocks) + 1
                    args == SubSeq(text, 1, n)
                    parsed == serde_json_from_str(partial_json)
                    b == Len(dec_tool_uses)
                    closed == IF sent_blocks = <<>> THEN sent_blocks
                              ELSE [sent_blocks EXCEPT ![Len(sent_blocks)].closed = TRUE]
                IN  /\ sent_blocks' = Append(closed, Block(id, name, v, text))
                    /\ stream' = [stream EXCEPT !.open = "tool",
                                                !.rest = SubSeq(text, n + 1, Len(text)),
                                                !.deltas = 0]
                    /\ IF dphase = "message"
                       THEN /\ dphase' = "tools"
                            /\ dec_tool_uses' = Append(dec_tool_uses,
                                                       ToolUse(name, id, JNull, NoOutput))
                            /\ partial_json' = identifying_chunk_arguments(args)
                       ELSE IF parsed.ok
                       THEN /\ dec_tool_uses' =
                                    Append([dec_tool_uses EXCEPT ![b].input = parsed.value],
                                           ToolUse(name, id, JNull, NoOutput))
                            /\ partial_json' = identifying_chunk_arguments(args)
                            /\ UNCHANGED dphase
                       ELSE /\ dphase' = "failed"
                            /\ UNCHANGED <<dec_tool_uses, partial_json>>
    /\ UNCHANGED dec_message
    /\ UNCHANGED nonDecodeVars

\* a chunk whose tool_calls[0] has function.arguments only
OpenaiArguments ==
    /\ dphase = "tools" /\ stream.open = "tool" /\ stream.deltas < MaxDeltas
    /\ stream.rest # <<>>
    /\ \E n \in 0 .. Len(stream.rest) :
        /\ stream.deltas + 1 = MaxDeltas => n = Len(stream.rest)
        /\ partial_json' = partial_json \o SubSeq(stream.rest, 1, n)
        /\ stream' = [stream EXCEPT
                        !.rest = SubSeq(stream.rest, n + 1, Len(stream.rest)),
                        !.deltas = @ + 1]
    /\ UNCHANGED <<dphase, dec_message, dec_tool_uses, sent_blocks>>
    /\ UNCHANGED nonDecodeVars

\* the finish_reason chunk, `[DONE]`, and the end of the stream: the first loop
\* ends; stream_tool_calls parses what it has into the last ToolUse
OpenaiDone ==
    /\ Decoding /\ stream.started /\ stream.rest = <<>>
    /\ IF dphase = "message"
       THEN /\ dphase' = "done"
            /\ UNCHANGED <<dec_tool_uses, sent_blocks>>
       ELSE LET parsed == serde_json_from_str(partial_json)
                b == Len(dec_tool_uses)
            IN  /\ sent_blocks' = [sent_blocks EXCEPT ![Len(sent_blocks)].closed = TRUE]
                /\ IF parsed.ok
                   THEN /\ dec_tool_uses' = [dec_tool_uses EXCEPT ![b].input = parsed.value]
                        /\ dphase' = "done"
                   ELSE /\ dphase' = "failed"
                        /\ UNCHANGED dec_tool_uses
    /\ stream' = [stream EXCEPT !.open = "none"]
    /\ UNCHANGED <<dec_message, partial_json>>
    /\ UNCHANGED nonDecodeVars

\* what the data field of an event of type error may hold: a JSON error
\* object, text that is not JSON, or the text of the end marker
ErrorData == {"object", "text", "[DONE]"}

\* an event of type error, at any point of the stream. Both loops compare the
\* data with `[DONE]` before they look at the event type, and return Ok(None)
\* on it; on other data they fail (not JSON) or bail (type error)
OpenaiError ==
    /\ Decoding
    /\ \E data \in ErrorData :
        dphase' = IF data = "[DONE]" THEN dphase ELSE "failed"
    /\ stream' = [stream EXCEPT !.error = TRUE]
    /\ UNCHANGED <<dec_message, dec_tool_uses, partial_json, sent_blocks>>
    /\ UNCHANGED nonDecodeVars

NextDecodeOpenai ==
    \/ OpenaiRole \/ OpenaiContent
    \/ OpenaiToolCall \/ OpenaiArguments
    \/ OpenaiDone \/ OpenaiError

----------------------------------------------------------------------------
(* Claims about the OpenAI decoder *)

\* C11: decode returns one ToolUse per tool call opened, in order, with the
\* call's id and name; the input of a finalized call (the next identifying chunk
\* or the end of the stream has come) is the value whose text the call's chunks
\* delivered, whichever chunk carried which part; decode fails only on an error
\* event.
C11_OpenaiToolInputs ==
    /\ dphase \in {"tools", "done"} =>
        /\ Len(dec_tool_uses) = Len(sent_blocks)
        /\ \A i \in 1 .. Len(sent_blocks) :
            /\ dec_tool_uses[i].id = sent_blocks[i].id
            /\ dec_tool_uses[i].name = sent_blocks[i].name
            /\ sent_blocks[i].closed => dec_tool_uses[i].input = sent_blocks[i].value
    /\ dphase = "failed" => stream.error

\* the text tokens the OpenAI stream has carried, in arrival order
SentText == [i \in 1 .. stream.texts |-> IF (i - 1) % 2 = 0 THEN "a" ELSE "b"]

\* C25: after a successful decode, `message` equals the concatenation, in
\* arrival order, of every text token the stream carried, including text
\* tokens that arrive after the first tool call has started.
C25_MessageHasAllText ==
    dphase = "done" => dec_message = SentText

\* the part of C25 about text before the first tool call
TextBeforeToolsKept ==
    (dphase = "done" /\ ~stream.textAfterTool) => dec_message = SentText

\* the Anthropic decoder never returns Ok for a stream with a text block after
\* a tool_use block
AnthropicFailsOnLateText ==
    stream.textAfterTool => dphase = "failed"

\* C26: an event of type error, in the text phase or in the tool-use phase of
\* either decoder, makes decode fail: once the stream has carried one, decode
\* is not running and does not return Ok.
C26_ErrorEventFailsDecode ==
    stream.error => dphase = "failed"

\* the OpenAI decoder returned Ok, with a tool use to run, for a stream that
\* carried an event of type error
OpenaiErrorEventIgnored ==
    stream.error /\ dphase = "done" /\ dec_tool_uses # <<>>

----------------------------------------------------------------------------
(* Specifications *)

InitSpecEditor == InitEditor /\ IdleSerialize /\ IdleAgent /\ IdleBash /\ IdleDecode /\ IdleClient
SpecEditor == InitSpecEditor /\ [][NextEditor]_vars

InitSpecEditorConc ==
    InitEditorConc /\ IdleSerialize /\ IdleAgent /\ IdleBash /\ IdleDecode /\ IdleClient
SpecEditorConc == InitSpecEditorConc /\ [][NextEditorConc]_vars

InitSpecView == InitView /\ IdleSerialize /\ IdleAgent /\ IdleBash /\ IdleDecode /\ IdleClient
SpecView == InitSpecView /\ [][ViewLong]_vars

InitSpecSerialize == InitSerialize /\ IdleEditor /\ IdleAgent /\ IdleBash /\ IdleDecode /\ IdleClient
SpecSerialize == InitSpecSerialize /\ [][NextSerialize]_vars

InitSpecAgent == InitAgent /\ IdleEditor /\ IdleSerialize /\ IdleBash /\ IdleDecode /\ IdleClient
SpecAgent == InitSpecAgent /\ [][NextAgent]_vars

InitSpecBash == InitBash /\ IdleEditor /\ IdleSerialize /\ IdleAgent /\ IdleDecode /\ IdleClient
SpecBash == InitSpecBash /\ [][NextBash]_vars
SpecBashFair == SpecBash /\ FairBash

InitSpecDecode == InitDecode /\ IdleEditor /\ IdleSerialize /\ IdleAgent /\ IdleBash /\ IdleClient
SpecDecode == InitSpecDecode /\ [][NextDecode]_vars

InitSpecDecodeOpenai == InitDecode /\ IdleEditor /\ IdleSerialize /\ IdleAgent /\ IdleBash /\ IdleClient
SpecDecodeOpenai == InitSpecDecodeOpenai /\ [][NextDecodeOpenai]_vars

InitSpecClient ==
    InitClient /\ IdleEditor /\ IdleSerialize /\ IdleAgent /\ IdleBash /\ IdleDecode
SpecClient == InitSpecClient /\ [][CallView]_vars

====
